---- MODULE Spec2Model ----
(***************************************************************************)
(* A model of the GPIO parts of mpio:                                      *)
(*   - the chip and line resolver of the character-device GPIO             *)
(*     (mpio/gpio.py: enumerate, _pin_lookup, _name_lookup, pin_to_name);  *)
(*   - the character-device GPIO object (mpio/gpio.py: __init__, get,      *)
(*     set, poll, close), alone and as the two ends of a loopback;         *)
(*   - the sysfs GPIO and its notifier thread (mio/gpio.py: AsyncPoll,     *)
(*     GPIO.poll, GPIO.async_poll, GPIO.close).                            *)
(***************************************************************************)
EXTENDS Integers, Sequences, FiniteSets, TLC

VARIABLES
    chips,      \* the GPIO controllers of the system: device name -> line names
    ret,        \* the last resolver call: its operation, argument and result
    gpio,       \* the mpio GPIO objects: _fd, _pin, _name, _line_offset, _mode
    call,       \* per GPIO object, its current or last method call
    fdtab,      \* the process's open descriptors, by number
    level,      \* the electrical level of the line
    dir,        \* the direction the kernel has put the line in
    edgeLog,    \* the edges the line has seen, oldest first
    pollLog,    \* the poll() calls that subscribed and have ended, oldest first
    ctor,       \* the call of GPIO.__init__: its arguments, its position, its counts
    main,       \* the thread that uses the sysfs GPIO: where it is
    thread,     \* the AsyncPoll thread: where it is
    handler,    \* the AsyncPoll object: running, edge
    sysfs,      \* the sysfs pin: its value, its edge attribute, its notification
    polled,     \* what the last poll() of the loop returned and what followed
    callbacks,  \* how often the callback has been invoked
    afterStop,  \* how many poll() calls the loop began after stop()
    cbLog       \* the begins and ends of the callback's invocations, oldest first

gpioVars == <<gpio, call, fdtab, level, dir, edgeLog, pollLog, ctor>>

sysfsVars == <<main, thread, handler, sysfs, polled, callbacks, afterStop, cbLog>>

vars == <<chips, ret, gpio, call, fdtab, level, dir, edgeLog, pollLog, ctor,
          main, thread, handler, sysfs, polled, callbacks, afterStop, cbLog>>

---------------------------------------------------------------------------
(* Bounds of the model. *)

\* The most lines a controller reports.
MaxLines == 2

\* The most edges the line sees in one run.
MaxEdges == 2

\* The most poll() calls made in one run.
MaxPolls == 2

\* The most edges the sysfs pin sees in one run.
MaxPinEdges == 3

\* The most calls of stop() in one run.
MaxStops == 2

---------------------------------------------------------------------------
(* Optional values: Python's None and a present value. *)

None == <<>>

Some(x) == <<x>>

---------------------------------------------------------------------------
(* The system's controllers.  A device node is /dev/gpiochip<digits>; it   *)
(* is modelled by the digit string that follows the common prefix, one     *)
(* digit per element, so that the string order of the names is the string  *)
(* order of these sequences.                                               *)

\* gpiochip1, gpiochip10, gpiochip2
DevNames == {<<1>>, <<1, 0>>, <<2>>}

\* A line's name as the kernel reports it; "" is an unnamed line.
LineNames == {"", "PA0"}

\* The line names of one controller, by offset.
LineNameSeqs == UNION {[1..n -> LineNames] : n \in 0..MaxLines}

\* Every set of controllers the system can show.
Topologies == UNION {[D -> LineNameSeqs] : D \in SUBSET DevNames}

---------------------------------------------------------------------------
(* The resolver: mpio/gpio.py, the static methods of GPIO.                 *)

\* A slip of StrLess: the device names ordered by their numeric suffix.
NumericLess(s, t) ==
    \/ Len(s) < Len(t)
    \/ /\ Len(s) = Len(t)
       /\ \E i \in 1..Len(s) : /\ s[i] < t[i]
                               /\ \A j \in 1..(i - 1) : s[j] = t[j]

\* Python's order on strings, on the digit strings of two device names: the
\* first differing character decides, and a proper prefix comes first.
RECURSIVE StrLess(_, _)
StrLess(s, t) ==
    IF t = <<>> THEN FALSE
    ELSE IF s = <<>> THEN TRUE
    ELSE IF Head(s) /= Head(t) THEN Head(s) < Head(t)
    ELSE StrLess(Tail(s), Tail(t))

\* glob.glob(_GPIO_ROOT + "*"): the device nodes present, in no order.
Glob == DOMAIN chips

\* sorted(names): the names in increasing string order.
RECURSIVE Sorted(_)
Sorted(S) ==
    IF S = {} THEN <<>>
    ELSE LET m == CHOOSE x \in S : \A y \in S \ {x} : StrLess(x, y)
         IN  <<m>> \o Sorted(S \ {m})

\* _GPIO_GET_CHIPINFO_IOCTL: info.lines of an open controller.
ChipLines(dev) == Len(chips[dev])

\* _GPIO_GET_LINEINFO_IOCTL: line.name of the line at line_offset.
LineName(dev, line_offset) == chips[dev][line_offset + 1]

\* A slip of EnumerateLines: the controller's own line offset is appended
\* in place of the running pin number.
EnumerateLinesByOffset(pins, pin, k, lines) ==
    [pins |-> pins \o [j \in 1..lines |-> j - 1], pin |-> pin + lines]

\* enumerate, the inner loop: for _ in range(info.lines), from its k-th turn.
RECURSIVE EnumerateLines(_, _, _, _)
EnumerateLines(pins, pin, k, lines) ==
    IF k >= lines THEN [pins |-> pins, pin |-> pin]
    ELSE EnumerateLines(Append(pins, pin), pin + 1, k + 1, lines)

\* enumerate, the outer loop from the i-th controller on.  Every controller
\* is opened, queried and closed.
RECURSIVE EnumerateDevs(_, _, _, _)
EnumerateDevs(devs, i, pins, pin) ==
    IF i > Len(devs) THEN [out |-> pins, opened |-> Len(devs), closed |-> Len(devs)]
    ELSE LET r == EnumerateLines(pins, pin, 0, ChipLines(devs[i]))
         IN  EnumerateDevs(devs, i + 1, r.pins, r.pin)

enumerate == EnumerateDevs(Sorted(Glob), 1, <<>>, 0)

\* _pin_lookup, the inner loop: for line_offset in range(info.lines).  It
\* answers the line_offset at which offset == pin, or the offset reached.
RECURSIVE PinLookupLines(_, _, _, _)
PinLookupLines(line_offset, lines, offset, pin) ==
    IF line_offset >= lines THEN [found |-> FALSE, offset |-> offset]
    ELSE IF offset = pin THEN [found |-> TRUE, line_offset |-> line_offset]
    ELSE PinLookupLines(line_offset + 1, lines, offset + 1, pin)

\* _pin_lookup, the outer loop from the i-th controller on.  The return
\* inside the loop leaves the controller it found the pin in open.
RECURSIVE PinLookupDevs(_, _, _, _)
PinLookupDevs(devs, i, offset, pin) ==
    IF i > Len(devs) THEN [out |-> None, opened |-> Len(devs), closed |-> Len(devs)]
    ELSE LET r == PinLookupLines(0, ChipLines(devs[i]), offset, pin)
         IN  IF r.found
             THEN [out |-> <<devs[i], r.line_offset>>, opened |-> i, closed |-> i - 1]
             ELSE PinLookupDevs(devs, i + 1, r.offset, pin)

\* A slip of _pin_lookup: a pin below 0 is taken for pin 0.
PinLookupFromZero(pin) == PinLookupDevs(Sorted(Glob), 1, 0, IF pin < 0 THEN 0 ELSE pin)

_pin_lookup(pin) == PinLookupDevs(Sorted(Glob), 1, 0, pin)

\* A slip of NameLookupLines: the search goes on after a match, so the
\* last line of the controller that bears the name is answered.
RECURSIVE NameLookupLinesLast(_, _, _, _, _)
NameLookupLinesLast(dev, line_offset, lines, offset, name) ==
    IF line_offset >= lines THEN [found |-> FALSE, offset |-> offset]
    ELSE LET rest == NameLookupLinesLast(dev, line_offset + 1, lines, offset + 1, name)
         IN  IF rest.found THEN rest
             ELSE IF LineName(dev, line_offset) = name
                  THEN [found |-> TRUE, offset |-> offset]
                  ELSE rest

\* _name_lookup, the inner loop: one line-info query per line.
RECURSIVE NameLookupLines(_, _, _, _, _)
NameLookupLines(dev, line_offset, lines, offset, name) ==
    IF line_offset >= lines THEN [found |-> FALSE, offset |-> offset]
    ELSE IF LineName(dev, line_offset) = name THEN [found |-> TRUE, offset |-> offset]
    ELSE NameLookupLines(dev, line_offset + 1, lines, offset + 1, name)

\* _name_lookup, the outer loop from the i-th controller on.
RECURSIVE NameLookupDevs(_, _, _, _)
NameLookupDevs(devs, i, offset, name) ==
    IF i > Len(devs) THEN [out |-> None, opened |-> Len(devs), closed |-> Len(devs)]
    ELSE LET r == NameLookupLines(devs[i], 0, ChipLines(devs[i]), offset, name)
         IN  IF r.found
             THEN [out |-> Some(r.offset), opened |-> i, closed |-> i - 1]
             ELSE NameLookupDevs(devs, i + 1, r.offset, name)

\* _name_lookup(name); name is None or Some(a name).
_name_lookup(name) ==
    IF name = None THEN [out |-> None, opened |-> 0, closed |-> 0]
    ELSE NameLookupDevs(Sorted(Glob), 1, 0, name[1])

\* pin_to_name(pin): the name of the line _pin_lookup finds, or None.
pin_to_name(pin) ==
    LET r == _pin_lookup(pin)
    IN  IF r.out /= None
        THEN [out |-> Some(LineName(r.out[1], r.out[2])),
              opened |-> r.opened + 1, closed |-> r.closed + 1]
        ELSE [out |-> None, opened |-> r.opened, closed |-> r.closed]

---------------------------------------------------------------------------
(* The resolver's callers: each action is one call, its result kept in     *)
(* ret.                                                                    *)

\* The pins and names a caller may pass: every valid pin, and one below
\* and two above the valid range.
PinArgs == -1 .. (Cardinality(DevNames) * MaxLines + 1)

NoCall == [op |-> "none", arg |-> None, out |-> None, opened |-> 0, closed |-> 0]

Call(op, arg, r) ==
    [op |-> op, arg |-> arg, out |-> r.out, opened |-> r.opened, closed |-> r.closed]

CallEnumerate ==
    /\ ret' = Call("enumerate", None, enumerate)
    /\ UNCHANGED <<chips, gpioVars, sysfsVars>>

CallPinLookup(pin) ==
    /\ ret' = Call("_pin_lookup", Some(pin), _pin_lookup(pin))
    /\ UNCHANGED <<chips, gpioVars, sysfsVars>>

CallNameLookup(name) ==
    /\ ret' = Call("_name_lookup", name, _name_lookup(name))
    /\ UNCHANGED <<chips, gpioVars, sysfsVars>>

CallPinToName(pin) ==
    /\ ret' = Call("pin_to_name", Some(pin), pin_to_name(pin))
    /\ UNCHANGED <<chips, gpioVars, sysfsVars>>

\* _name_lookup(pin_to_name(pin)), as GPIO(gpio.name, mode) performs it.
CallRoundTrip(pin) ==
    /\ ret' = Call("roundtrip", Some(pin), _name_lookup(pin_to_name(pin).out))
    /\ UNCHANGED <<chips, gpioVars, sysfsVars>>

\* The sysfs GPIO and its notifier before any use.
SysfsUnused ==
    /\ main = "idle"
    /\ thread = "none"
    /\ handler = [running |-> FALSE, edge |-> "none", stops |-> 0]
    /\ sysfs = [value |-> FALSE, edge |-> "none", notified |-> FALSE, edges |-> 0,
                open |-> FALSE]
    /\ polled = [result |-> "", invoked |-> FALSE, seq |-> 0]
    /\ callbacks = 0
    /\ afterStop = 0
    /\ cbLog = <<>>

\* No call of GPIO.__init__ is in progress or recorded.
NoCtor ==
    [pc |-> "none", pin |-> <<>>, mode |-> "", initial |-> <<>>, name |-> <<>>,
     line_offset |-> 0, retries |-> 0, sleeps |-> 0, sets |-> 0, errno |-> "",
     out |-> "", force_own |-> FALSE]

\* The character-device GPIO objects before any is made.
GpioUnused ==
    /\ gpio = <<>>
    /\ call = <<>>
    /\ fdtab = <<>>
    /\ level = <<>>
    /\ dir = <<>>
    /\ edgeLog = <<>>
    /\ pollLog = <<>>
    /\ ctor = NoCtor

ResolverInit ==
    /\ chips \in Topologies
    /\ ret = NoCall
    /\ GpioUnused
    /\ SysfsUnused

ResolverNext ==
    \/ CallEnumerate
    \/ \E pin \in PinArgs : CallPinLookup(pin)
    \/ \E name \in {None} \cup {Some(n) : n \in LineNames} : CallNameLookup(name)
    \/ \E pin \in PinArgs : CallPinToName(pin)
    \/ \E pin \in PinArgs : CallRoundTrip(pin)

ResolverSpec == ResolverInit /\ [][ResolverNext]_vars

---------------------------------------------------------------------------
(* The character-device GPIO object: mpio/gpio.py, class GPIO.             *)

\* The GPIO objects of the program.
Objs == {"gpio"}

\* GPIO.IN, GPIO.OUT
GPIO_IN == "in"

GPIO_OUT == "out"

\* GPIO.RISING, GPIO.FALLING, GPIO.BOTH
RISING == "rising"

FALLING == "falling"

BOTH == "both"

\* The request and event constants of <uapi/linux/gpio.h>.
_GPIOHANDLE_REQUEST_INPUT == 1

_GPIOHANDLE_REQUEST_OUTPUT == 2

_GPIOEVENT_REQUEST_RISING_EDGE == 1

_GPIOEVENT_REQUEST_FALLING_EDGE == 2

_GPIOEVENT_EVENT_RISING_EDGE == 1

_GPIOEVENT_EVENT_FALLING_EDGE == 2

\* The controllers of the system the GPIO objects run on: gpiochip10 with
\* one line and gpiochip2 with one line.
BoardChips == (<<1, 0>> :> <<"PA0">>) @@ (<<2>> :> <<"">>)

\* The values a caller passes to set(): bools and ints.
SetArgs == {0, 1, 2}

\* The arguments a caller passes to poll(): the three edges and a string
\* that is none of them; a negative, a zero and a positive timeout.
EdgeArgs == {RISING, FALLING, BOTH, "none"}

TimeoutArgs == {-1, 0, 1}

\* bool(value)
Bool(value) == value /= 0

\* How a returned bool reads.
BoolStr(b) == IF b THEN "True" ELSE "False"

\* The lowest descriptor number the process does not have open; 0, 1 and 2
\* are the standard streams.
LowestFree(tab) == CHOOSE n \in 3..(3 + Cardinality(DOMAIN tab)) :
    /\ n \notin DOMAIN tab
    /\ \A m \in 3..(n - 1) : m \in DOMAIN tab

\* os.open and the kernel's answer to a handle or event request: a new
\* descriptor of the given kind.  A handle request names req.lines = 1
\* line, lineoffsets[0], and an event request has one lineoffset.
OpenFd(tab, kind, dev, line_offset, flags) ==
    tab @@ (LowestFree(tab) :>
        [kind |-> kind, dev |-> dev, line_offset |-> line_offset,
         lines |-> IF kind \in {"handle", "event"} THEN 1 ELSE 0,
         flags |-> flags, queue |-> <<>>])

\* os.close(fd); the events still queued on an event descriptor go with it.
CloseFd(tab, fd) == [n \in DOMAIN tab \ {fd} |-> tab[n]]

\* The descriptors a handle or event request has returned.
SecondaryFds(tab) == {n \in DOMAIN tab : tab[n].kind \in {"handle", "event"}}

\* The descriptors open on a controller device node for reading and
\* writing.
ChipFds(tab) == {n \in DOMAIN tab : tab[n].kind = "chip"}

\* The kernel holds a line for one handle or event descriptor at a time.
Busy(tab, ln) ==
    \E n \in SecondaryFds(tab) : <<tab[n].dev, tab[n].line_offset>> = ln

\* The board ties its two lines together with a wire, as the loopback test
\* requires of its two pins.
Tied(ln, m) == ln /= m /\ {ln, m} \subseteq {<<<<1, 0>>, 0>>, <<<<2>>, 0>>}

\* The lines in use that are on the wire of line ln, ln among them.
Net(ln) == {m \in DOMAIN level : m = ln \/ Tied(ln, m)}

\* The id of the edge that takes the line to level v.
EdgeId(v) == IF v THEN _GPIOEVENT_EVENT_RISING_EDGE ELSE _GPIOEVENT_EVENT_FALLING_EDGE

\* The kernel queues an edge on every event descriptor of the lines on the
\* wire whose event flags ask for it.
QueueEdge(tab, ln, id) ==
    [n \in DOMAIN tab |->
        IF /\ tab[n].kind = "event"
           /\ <<tab[n].dev, tab[n].line_offset>> \in Net(ln)
           /\ tab[n].flags \in {id, _GPIOEVENT_REQUEST_RISING_EDGE + _GPIOEVENT_REQUEST_FALLING_EDGE}
        THEN [tab[n] EXCEPT !.queue = Append(@, id)]
        ELSE tab[n]]

\* The line, and the wire it is on, goes to level v: nothing happens if it
\* is there already, otherwise the edge is queued and logged.
LineGoes(tab, ln, v) ==
    /\ level' = [m \in DOMAIN level |-> IF m \in Net(ln) THEN v ELSE level[m]]
    /\ IF level[ln] = v
       THEN /\ fdtab' = tab
            /\ edgeLog' = edgeLog
       ELSE /\ fdtab' = QueueEdge(tab, ln, EdgeId(v))
            /\ edgeLog' = Append(edgeLog, [line |-> ln, id |-> EdgeId(v)])

\* The line of a GPIO object: (self._name, self._line_offset).
LineOf(g) == <<gpio[g].name, gpio[g].line_offset>>

\* A method call that has returned a value or raised an exception.
Done(op, out, ioctls) ==
    [op |-> op, pc |-> "done", arg |-> None, fd |-> 0, out |-> out, ioctls |-> ioctls]

\* set(value) has returned: the value it wrote is remembered.
DoneSet(value) == [Done("set", "None", 2) EXCEPT !.arg = value]

\* poll(edge, timeout) has returned out or raised it after its wait: the
\* timeout it was given is remembered.
DonePoll(out, timeout) == [Done("poll", out, 1) EXCEPT !.arg = Some(timeout)]

\* A method call that holds the descriptor req.fd and goes on at pc.
Running(op, pc, arg, fd) ==
    [op |-> op, pc |-> pc, arg |-> arg, fd |-> fd, out |-> "", ioctls |-> 1]

Idle(g) == g \in DOMAIN gpio /\ call[g].pc = "done"

\* A slip of GetCall: the mode is not looked at before the request.
GetCallAnyMode(g) ==
    /\ Idle(g)
    /\ IF gpio[g].fd = None
       THEN /\ call' = [call EXCEPT ![g] = Done("get", "TypeError", 0)]
            /\ UNCHANGED <<fdtab, dir>>
       ELSE \E ok \in BOOLEAN :
            IF ok /\ ~Busy(fdtab, LineOf(g))
            THEN /\ fdtab' = OpenFd(fdtab, "handle", gpio[g].name, gpio[g].line_offset,
                                    _GPIOHANDLE_REQUEST_INPUT)
                 /\ dir' = [dir EXCEPT ![LineOf(g)] = GPIO_IN]
                 /\ call' = [call EXCEPT ![g] = Running("get", "values", None, LowestFree(fdtab))]
            ELSE /\ call' = [call EXCEPT ![g] = Done("get", "OSError", 1)]
                 /\ UNCHANGED <<fdtab, dir>>
    /\ UNCHANGED <<sysfsVars, chips, ret, ctor, gpio, level, edgeLog, pollLog>>

\* get(), up to and including the line-handle request.
GetCall(g) ==
    /\ Idle(g)
    /\ IF gpio[g].mode /= GPIO_IN
       THEN /\ call' = [call EXCEPT ![g] = Done("get", "RuntimeError", 0)]
            /\ UNCHANGED <<fdtab, dir>>
       ELSE IF gpio[g].fd = None
       THEN /\ call' = [call EXCEPT ![g] = Done("get", "TypeError", 0)]
            /\ UNCHANGED <<fdtab, dir>>
       ELSE \E ok \in BOOLEAN :
            IF ok /\ ~Busy(fdtab, LineOf(g))
            THEN /\ fdtab' = OpenFd(fdtab, "handle", gpio[g].name, gpio[g].line_offset,
                                    _GPIOHANDLE_REQUEST_INPUT)
                 /\ dir' = [dir EXCEPT ![LineOf(g)] = GPIO_IN]
                 /\ call' = [call EXCEPT ![g] = Running("get", "values", None, LowestFree(fdtab))]
            ELSE /\ call' = [call EXCEPT ![g] = Done("get", "OSError", 1)]
                 /\ UNCHANGED <<fdtab, dir>>
    /\ UNCHANGED <<sysfsVars, chips, ret, ctor, gpio, level, edgeLog, pollLog>>

\* A slip of GetReturn: req.fd is closed after the get-values call, not
\* in a finally clause, so a call that raises leaves it open.
GetReturnNoFinally(g) ==
    /\ g \in DOMAIN gpio
    /\ call[g].op = "get"
    /\ call[g].pc = "values"
    /\ \E ok \in BOOLEAN :
        /\ call' = [call EXCEPT ![g] =
                Done("get", IF ok THEN BoolStr(level[LineOf(g)]) ELSE "OSError", 2)]
        /\ fdtab' = IF ok THEN CloseFd(fdtab, call[g].fd) ELSE fdtab
    /\ UNCHANGED <<sysfsVars, chips, ret, ctor, gpio, level, dir, edgeLog, pollLog>>

\* get(), from the get-values call to the return: the finally clause
\* closes req.fd whether the call succeeded or raised.
GetReturn(g) ==
    /\ g \in DOMAIN gpio
    /\ call[g].op = "get"
    /\ call[g].pc = "values"
    /\ \E ok \in BOOLEAN :
        call' = [call EXCEPT ![g] =
            Done("get", IF ok THEN BoolStr(level[LineOf(g)]) ELSE "OSError", 2)]
    /\ fdtab' = CloseFd(fdtab, call[g].fd)
    /\ UNCHANGED <<sysfsVars, chips, ret, ctor, gpio, level, dir, edgeLog, pollLog>>

\* The edges a set(value) makes at most: one when the handle is granted
\* with default value 0, one when the value is written.
SetEdges(g, value) ==
    (IF level[LineOf(g)] THEN 1 ELSE 0) + (IF Bool(value) THEN 1 ELSE 0)

\* A slip of SetCall: close() leaves a descriptor number in self._fd, so
\* the request of a set() on a closed object reaches the kernel, which
\* refuses it.
SetCallStaleFd(g, value) ==
    /\ Idle(g)
    /\ IF gpio[g].mode /= GPIO_OUT
       THEN /\ call' = [call EXCEPT ![g] = Done("set", "RuntimeError", 0)]
            /\ UNCHANGED <<fdtab, dir, level, edgeLog>>
       ELSE IF gpio[g].fd = None
       THEN /\ call' = [call EXCEPT ![g] = Done("set", "OSError", 1)]
            /\ UNCHANGED <<fdtab, dir, level, edgeLog>>
       ELSE \E ok \in BOOLEAN :
            IF ok /\ ~Busy(fdtab, LineOf(g))
            THEN /\ Len(edgeLog) + SetEdges(g, value) <= MaxEdges
                 /\ LineGoes(OpenFd(fdtab, "handle", gpio[g].name, gpio[g].line_offset,
                                    _GPIOHANDLE_REQUEST_OUTPUT),
                             LineOf(g), FALSE)
                 /\ dir' = [dir EXCEPT ![LineOf(g)] = GPIO_OUT]
                 /\ call' = [call EXCEPT ![g] =
                        Running("set", "values", Some(value), LowestFree(fdtab))]
            ELSE /\ call' = [call EXCEPT ![g] = Done("set", "OSError", 1)]
                 /\ UNCHANGED <<fdtab, dir, level, edgeLog>>
    /\ UNCHANGED <<sysfsVars, chips, ret, ctor, gpio, pollLog>>

\* set(value), up to and including the line-handle request.  The handle is
\* requested with default value 0, which the kernel drives at once.
SetCall(g, value) ==
    /\ Idle(g)
    /\ IF gpio[g].mode /= GPIO_OUT
       THEN /\ call' = [call EXCEPT ![g] = Done("set", "RuntimeError", 0)]
            /\ UNCHANGED <<fdtab, dir, level, edgeLog>>
       ELSE IF gpio[g].fd = None
       THEN /\ call' = [call EXCEPT ![g] = Done("set", "TypeError", 0)]
            /\ UNCHANGED <<fdtab, dir, level, edgeLog>>
       ELSE \E ok \in BOOLEAN :
            IF ok /\ ~Busy(fdtab, LineOf(g))
            THEN /\ Len(edgeLog) + SetEdges(g, value) <= MaxEdges
                 /\ LineGoes(OpenFd(fdtab, "handle", gpio[g].name, gpio[g].line_offset,
                                    _GPIOHANDLE_REQUEST_OUTPUT),
                             LineOf(g), FALSE)
                 /\ dir' = [dir EXCEPT ![LineOf(g)] = GPIO_OUT]
                 /\ call' = [call EXCEPT ![g] =
                        Running("set", "values", Some(value), LowestFree(fdtab))]
            ELSE /\ call' = [call EXCEPT ![g] = Done("set", "OSError", 1)]
                 /\ UNCHANGED <<fdtab, dir, level, edgeLog>>
    /\ UNCHANGED <<sysfsVars, chips, ret, ctor, gpio, pollLog>>

\* A slip of SetReturn: the set-values call writes nothing, and the line
\* stays at the default value of the handle.
SetReturnNoWrite(g) ==
    /\ g \in DOMAIN gpio
    /\ call[g].op = "set"
    /\ call[g].pc = "values"
    /\ \E ok \in BOOLEAN :
        IF ok
        THEN /\ fdtab' = CloseFd(fdtab, call[g].fd)
             /\ UNCHANGED <<level, edgeLog>>
             /\ call' = [call EXCEPT ![g] = DoneSet(call[g].arg)]
        ELSE /\ fdtab' = CloseFd(fdtab, call[g].fd)
             /\ call' = [call EXCEPT ![g] = Done("set", "OSError", 2)]
             /\ UNCHANGED <<level, edgeLog>>
    /\ UNCHANGED <<sysfsVars, chips, ret, ctor, gpio, dir, pollLog>>

\* set(value), from the set-values call to the return; the finally clause
\* closes req.fd.
SetReturn(g) ==
    /\ g \in DOMAIN gpio
    /\ call[g].op = "set"
    /\ call[g].pc = "values"
    /\ \E ok \in BOOLEAN :
        IF ok
        THEN /\ LineGoes(CloseFd(fdtab, call[g].fd), LineOf(g), Bool(call[g].arg[1]))
             /\ call' = [call EXCEPT ![g] = DoneSet(call[g].arg)]
        ELSE /\ fdtab' = CloseFd(fdtab, call[g].fd)
             /\ call' = [call EXCEPT ![g] = Done("set", "OSError", 2)]
             /\ UNCHANGED <<level, edgeLog>>
    /\ UNCHANGED <<sysfsVars, chips, ret, ctor, gpio, dir, pollLog>>

\* req.eventflags for an edge argument.
EventFlags(edge) ==
    IF edge = BOTH THEN _GPIOEVENT_REQUEST_RISING_EDGE + _GPIOEVENT_REQUEST_FALLING_EDGE
    ELSE IF edge = RISING THEN _GPIOEVENT_REQUEST_RISING_EDGE
    ELSE _GPIOEVENT_REQUEST_FALLING_EDGE

\* A slip of Classify: the two ids are taken the other way round.
ClassifySwapped(id) ==
    IF id = _GPIOEVENT_EVENT_FALLING_EDGE THEN RISING
    ELSE IF id = _GPIOEVENT_EVENT_RISING_EDGE THEN FALLING
    ELSE "None"

\* The result poll() gives for an event record, by its id.
Classify(id) ==
    IF id = _GPIOEVENT_EVENT_RISING_EDGE THEN RISING
    ELSE IF id = _GPIOEVENT_EVENT_FALLING_EDGE THEN FALLING
    ELSE "None"

\* The entry of pollLog for a poll() that was granted its event
\* descriptor after subAt edges and returns or raises now.
Polled(edge, out, subAt) ==
    [edge |-> edge, out |-> out, subAt |-> subAt, retAt |-> Len(edgeLog)]

\* A slip of PollCall: the event request asks for both edges whatever
\* the edge argument is.
PollCallBothEdges(g, edge, timeout) ==
    /\ Idle(g)
    /\ Len(pollLog) < MaxPolls
    /\ IF edge \notin {RISING, FALLING, BOTH}
       THEN /\ call' = [call EXCEPT ![g] = Done("poll", "ValueError", 0)]
            /\ UNCHANGED <<fdtab, dir, pollLog>>
       ELSE IF gpio[g].fd = None
       THEN /\ call' = [call EXCEPT ![g] = Done("poll", "TypeError", 0)]
            /\ UNCHANGED <<fdtab, dir, pollLog>>
       ELSE \E ok \in BOOLEAN :
            IF ok /\ ~Busy(fdtab, LineOf(g))
            THEN /\ fdtab' = OpenFd(fdtab, "event", gpio[g].name, gpio[g].line_offset,
                                    EventFlags(BOTH))
                 /\ dir' = [dir EXCEPT ![LineOf(g)] = GPIO_IN]
                 /\ call' = [call EXCEPT ![g] =
                        Running("poll", "wait", <<edge, timeout, Len(edgeLog)>>,
                                LowestFree(fdtab))]
                 /\ UNCHANGED pollLog
            ELSE /\ call' = [call EXCEPT ![g] = Done("poll", "OSError", 1)]
                 /\ UNCHANGED <<fdtab, dir, pollLog>>
    /\ UNCHANGED <<sysfsVars, chips, ret, ctor, gpio, level, edgeLog>>

\* poll(edge, timeout), up to and including the line-event request.
PollCall(g, edge, timeout) ==
    /\ Idle(g)
    /\ Len(pollLog) < MaxPolls
    /\ IF edge \notin {RISING, FALLING, BOTH}
       THEN /\ call' = [call EXCEPT ![g] = Done("poll", "ValueError", 0)]
            /\ UNCHANGED <<fdtab, dir, pollLog>>
       ELSE IF gpio[g].fd = None
       THEN /\ call' = [call EXCEPT ![g] = Done("poll", "TypeError", 0)]
            /\ UNCHANGED <<fdtab, dir, pollLog>>
       ELSE \E ok \in BOOLEAN :
            IF ok /\ ~Busy(fdtab, LineOf(g))
            THEN /\ fdtab' = OpenFd(fdtab, "event", gpio[g].name, gpio[g].line_offset,
                                    EventFlags(edge))
                 /\ dir' = [dir EXCEPT ![LineOf(g)] = GPIO_IN]
                 /\ call' = [call EXCEPT ![g] =
                        Running("poll", "wait", <<edge, timeout, Len(edgeLog)>>,
                                LowestFree(fdtab))]
                 /\ UNCHANGED pollLog
            ELSE /\ call' = [call EXCEPT ![g] = Done("poll", "OSError", 1)]
                 /\ UNCHANGED <<fdtab, dir, pollLog>>
    /\ UNCHANGED <<sysfsVars, chips, ret, ctor, gpio, level, edgeLog>>

\* A slip of PollReturn: a timeout of 0 is taken for no timeout, so the
\* wait ends only with an event.
PollReturnZeroWaits(g) ==
    /\ g \in DOMAIN gpio
    /\ call[g].op = "poll"
    /\ call[g].pc = "wait"
    /\ LET queue == fdtab[call[g].fd].queue
           edge == call[g].arg[1]
           timeout == call[g].arg[2]
           subAt == call[g].arg[3]
       IN  \E ok \in BOOLEAN :
            /\ ok => (queue /= <<>> \/ timeout > 0)
            /\ LET out == IF ~ok THEN "OSError"
                          ELSE IF queue /= <<>> THEN Classify(Head(queue))
                          ELSE "None"
               IN  /\ call' = [call EXCEPT ![g] = DonePoll(out, timeout)]
                   /\ pollLog' = Append(pollLog, Polled(edge, out, subAt))
    /\ fdtab' = CloseFd(fdtab, call[g].fd)
    /\ UNCHANGED <<sysfsVars, chips, ret, ctor, gpio, level, dir, edgeLog>>

\* poll(), from epoll.poll(timeout) to the return.  With an event queued
\* the wait ends and one record is read; with none queued it ends only
\* when the timeout is not negative; creating the epoll object, waiting
\* and reading can each raise.  The finally clause closes req.fd.
PollReturn(g) ==
    /\ g \in DOMAIN gpio
    /\ call[g].op = "poll"
    /\ call[g].pc = "wait"
    /\ LET queue == fdtab[call[g].fd].queue
           edge == call[g].arg[1]
           timeout == call[g].arg[2]
           subAt == call[g].arg[3]
       IN  \E ok \in BOOLEAN :
            /\ ok => (queue /= <<>> \/ timeout >= 0)
            /\ LET out == IF ~ok THEN "OSError"
                          ELSE IF queue /= <<>> THEN Classify(Head(queue))
                          ELSE "None"
               IN  /\ call' = [call EXCEPT ![g] = DonePoll(out, timeout)]
                   /\ pollLog' = Append(pollLog, Polled(edge, out, subAt))
    /\ fdtab' = CloseFd(fdtab, call[g].fd)
    /\ UNCHANGED <<sysfsVars, chips, ret, ctor, gpio, level, dir, edgeLog>>

\* A slip of Close: the descriptor is closed and self._fd keeps its
\* number.
CloseKeepsFd(g) ==
    /\ Idle(g)
    /\ IF gpio[g].fd /= None
       THEN fdtab' = CloseFd(fdtab, gpio[g].fd[1])
       ELSE UNCHANGED fdtab
    /\ call' = [call EXCEPT ![g] = Done("close", "None", 0)]
    /\ UNCHANGED <<sysfsVars, chips, ret, ctor, gpio, level, dir, edgeLog, pollLog>>

\* close()
Close(g) ==
    /\ Idle(g)
    /\ IF gpio[g].fd /= None
       THEN /\ fdtab' = CloseFd(fdtab, gpio[g].fd[1])
            /\ gpio' = [gpio EXCEPT ![g].fd = None]
       ELSE UNCHANGED <<fdtab, gpio>>
    /\ call' = [call EXCEPT ![g] = Done("close", "None", 0)]
    /\ UNCHANGED <<sysfsVars, chips, ret, ctor, level, dir, edgeLog, pollLog>>

\* The signal on a wire that the kernel drives from no line changes
\* level.
ExternalEdge(ln) ==
    /\ ln \in DOMAIN level
    /\ \A m \in Net(ln) : dir[m] = GPIO_IN
    /\ Len(edgeLog) < MaxEdges
    /\ LineGoes(fdtab, ln, ~level[ln])
    /\ UNCHANGED <<sysfsVars, chips, ret, ctor, gpio, call, dir, pollLog>>

\* The state GPIO(pin, mode, initial) leaves when it has returned: the
\* controller _pin_lookup found the pin in is still open read-only, the
\* controller is open read-write as self._fd, and an output line has been
\* driven to the initial value by set(initial).
ConstructedOn(tab, pin, mode) ==
    LET r == _pin_lookup(pin)
        ro == OpenFd(tab, "chip_ro", r.out[1], 0, 0)
    IN  [obj |-> [fd |-> Some(LowestFree(ro)), pin |-> pin, name |-> r.out[1],
                  line_offset |-> r.out[2], mode |-> mode],
         tab |-> OpenFd(ro, "chip", r.out[1], 0, 0),
         line |-> r.out]

\* The same in a process that has no descriptor open yet.
Constructed(pin, mode) == ConstructedOn(<<>>, pin, mode)

Init ==
    /\ chips = BoardChips
    /\ ret = NoCall
    /\ \E pin \in {1}, mode \in {GPIO_IN, GPIO_OUT}, initial \in BOOLEAN, lvl \in BOOLEAN :
        LET c == Constructed(pin, mode)
        IN  /\ gpio = [g \in Objs |-> c.obj]
            /\ fdtab = c.tab
            /\ dir = (c.line :> mode)
            /\ level = (c.line :> (IF mode = GPIO_OUT THEN initial ELSE lvl))
    /\ call = [g \in Objs |-> Done("__init__", "None", 0)]
    /\ edgeLog = <<>>
    /\ pollLog = <<>>
    /\ ctor = NoCtor
    /\ SysfsUnused

Next ==
    \/ \E g \in Objs : GetCall(g)
    \/ \E g \in Objs : GetReturn(g)
    \/ \E g \in Objs, value \in SetArgs : SetCall(g, value)
    \/ \E g \in Objs : SetReturn(g)
    \/ \E g \in Objs, edge \in EdgeArgs, timeout \in TimeoutArgs : PollCall(g, edge, timeout)
    \/ \E g \in Objs : PollReturn(g)
    \/ \E g \in Objs : Close(g)
    \/ \E ln \in DOMAIN level : ExternalEdge(ln)

Spec == Init /\ [][Next]_vars

---------------------------------------------------------------------------
(* The loopback of tests/test_gpio.py on the character device: an input    *)
(* GPIO on pin 0 and an output GPIO on pin 1, the two pins tied together.  *)

LoopObjs == {"in", "out"}

\* Both objects are constructed, the output with some initial value or
\* with None; a wire that is not driven is at some level.
LoopInit ==
    /\ chips = BoardChips
    /\ ret = NoCall
    /\ \E initial \in {None, Some(0), Some(1)}, lvl \in BOOLEAN :
        LET i == ConstructedOn(<<>>, 0, GPIO_IN)
            o == ConstructedOn(i.tab, 1, GPIO_OUT)
        IN  /\ gpio = ("in" :> i.obj) @@ ("out" :> o.obj)
            /\ fdtab = o.tab
            /\ call = ("in" :> Done("__init__", "None", 0)) @@
                      ("out" :> IF initial = None THEN Done("__init__", "None", 0)
                                ELSE DoneSet(initial))
            /\ dir = (i.line :> GPIO_IN) @@
                     (o.line :> IF initial = None THEN GPIO_IN ELSE GPIO_OUT)
            /\ level = [ln \in {i.line, o.line} |->
                            IF initial = None THEN lvl ELSE Bool(initial[1])]
    /\ edgeLog = <<>>
    /\ pollLog = <<>>
    /\ ctor = NoCtor
    /\ SysfsUnused

LoopNext ==
    \/ \E g \in LoopObjs : GetCall(g)
    \/ \E g \in LoopObjs : GetReturn(g)
    \/ \E g \in LoopObjs, value \in SetArgs : SetCall(g, value)
    \/ \E g \in LoopObjs : SetReturn(g)
    \/ \E ln \in DOMAIN level : ExternalEdge(ln)

LoopSpec == LoopInit /\ [][LoopNext]_vars

---------------------------------------------------------------------------
(* GPIO.__init__(pin, mode, initial) of mpio/gpio.py, step by step: the    *)
(* argument tests and the two lookups, the loop that opens the controller  *)
(* device node, and the set(initial) of an output.                         *)

\* The errno of permission denied, and the number of tries after which the
\* loop gives up retrying it.
EACCES == 13

RetryLimit == 20

\* The lines of the board, as (controller, offset).
BoardLines ==
    {ln \in (DOMAIN BoardChips) \X (0..(MaxLines - 1)) : ln[2] < Len(BoardChips[ln[1]])}

\* What a caller passes as pin: a number in or about the valid range, or a
\* name that a line bears or that none bears.
CtorPins ==
    {[num |-> Some(p), name |-> None] : p \in -1..2} \cup
    {[num |-> None, name |-> Some(n)] : n \in {"PA0", "PB9"}}

\* What a caller passes as mode and as initial.
CtorModes == {GPIO_IN, GPIO_OUT, "inout"}

CtorInitials == {None, Some(0), Some(1)}

\* The ways os.open ends.
OpenResults == {"ok", "EACCES", "ENOENT"}

\* The record of a call of __init__ at position pc.
Ctor(pc, pin, mode, initial, name, line_offset) ==
    [pc |-> pc, pin |-> pin, mode |-> mode, initial |-> initial,
     name |-> name, line_offset |-> line_offset,
     retries |-> 0, sleeps |-> 0, sets |-> 0, errno |-> "", out |-> "",
     force_own |-> FALSE]

\* __init__ has raised the exception out.
Raised(c, out) == [c EXCEPT !.pc = "raised", !.out = out]

\* The descriptors the lookups leave open: each lookup that finds its line
\* returns from inside its loop, before the os.close of the controller.
RECURSIVE Leaked(_, _, _)
Leaked(tab, dev, n) ==
    IF n = 0 THEN tab ELSE Leaked(OpenFd(tab, "chip_ro", dev, 0, 0), dev, n - 1)

\* A slip of CtorEntry: a line that an open GPIO object is on is given to
\* a second object only with force_own.
CtorEntryOwned(tab, arg, mode, initial, py2, force_own) ==
    LET byName == arg.name /= None
        nl == IF byName /\ py2 THEN _name_lookup(arg.name)
              ELSE [out |-> None, opened |-> 0, closed |-> 0]
        pin == IF byName THEN nl.out ELSE arg.num
        pl == IF pin = None THEN [out |-> None, opened |-> 0, closed |-> 0]
              ELSE _pin_lookup(pin[1])
        c == [Ctor("open", pin, mode, initial, None, 0) EXCEPT !.force_own = force_own]
    IN  IF mode \notin {GPIO_IN, GPIO_OUT}
        THEN [ctor |-> Raised(c, "ValueError"), tab |-> tab]
        ELSE IF byName /\ nl.out = None
        THEN [ctor |-> Raised(c, "RuntimeError"), tab |-> tab]
        ELSE IF pl.out = None
        THEN [ctor |-> Raised(c, "ValueError"), tab |-> tab]
        ELSE IF ~force_own /\ \E h \in DOMAIN gpio : gpio[h].fd /= None /\ LineOf(h) = pl.out
        THEN [ctor |-> Raised(c, "RuntimeError"), tab |-> tab]
        ELSE [ctor |-> [c EXCEPT !.name = Some(pl.out[1]), !.line_offset = pl.out[2]],
              tab |-> Leaked(tab, pl.out[1],
                             (nl.opened - nl.closed) + (pl.opened - pl.closed))]

\* __init__, from its first line to the loop, as what it makes of the
\* descriptors tab and of its arguments: the test of mode, the lookup of a
\* name, the lookup of the pin.  In Python 2 a str is compared with the
\* bytes of the line name; in Python 3 a str equals no bytes.  force_own
\* is a parameter like the others and stays in scope to the end of the
\* call.
CtorEntry(tab, arg, mode, initial, py2, force_own) ==
    LET byName == arg.name /= None
        nl == IF byName /\ py2 THEN _name_lookup(arg.name)
              ELSE [out |-> None, opened |-> 0, closed |-> 0]
        pin == IF byName THEN nl.out ELSE arg.num
        pl == IF pin = None THEN [out |-> None, opened |-> 0, closed |-> 0]
              ELSE _pin_lookup(pin[1])
        c == [Ctor("open", pin, mode, initial, None, 0) EXCEPT !.force_own = force_own]
    IN  IF mode \notin {GPIO_IN, GPIO_OUT}
        THEN [ctor |-> Raised(c, "ValueError"), tab |-> tab]
        ELSE IF byName /\ nl.out = None
        THEN [ctor |-> Raised(c, "RuntimeError"), tab |-> tab]
        ELSE IF pl.out = None
        THEN [ctor |-> Raised(c, "ValueError"), tab |-> tab]
        ELSE [ctor |-> [c EXCEPT !.name = Some(pl.out[1]), !.line_offset = pl.out[2]],
              tab |-> Leaked(tab, pl.out[1],
                             (nl.opened - nl.closed) + (pl.opened - pl.closed))]

\* The call GPIO(pin, mode, initial, force_own) enters __init__.
Construct(g, arg, mode, initial, py2, force_own) ==
    /\ ctor.pc = "none"
    /\ g \notin DOMAIN gpio
    /\ LET r == CtorEntry(fdtab, arg, mode, initial, py2, force_own)
       IN  /\ ctor' = r.ctor
           /\ fdtab' = r.tab
    /\ UNCHANGED <<sysfsVars, chips, ret, gpio, call, level, dir, edgeLog, pollLog>>

\* A slip of OpenAttempt: every error of os.open is retried like
\* permission denied.
OpenAttemptRetriesAll(g) ==
    /\ ctor.pc = "open"
    /\ LET retries == ctor.retries + 1
       IN  \E res \in OpenResults :
            IF res = "ok"
            THEN /\ fdtab' = OpenFd(fdtab, "chip", ctor.name[1], 0, 0)
                 /\ gpio' = gpio @@ (g :> [fd |-> Some(LowestFree(fdtab)),
                                           pin |-> ctor.pin[1],
                                           name |-> ctor.name[1],
                                           line_offset |-> ctor.line_offset,
                                           mode |-> ctor.mode])
                 /\ call' = call @@ (g :> Done("__init__", "None", 0))
                 /\ ctor' = IF ctor.mode = GPIO_OUT /\ ctor.initial /= None
                            THEN [ctor EXCEPT !.retries = retries, !.errno = "",
                                              !.pc = "set"]
                            ELSE [ctor EXCEPT !.retries = retries, !.errno = "",
                                              !.pc = "returned", !.out = "None"]
            ELSE /\ ctor' = IF retries > RetryLimit
                            THEN Raised([ctor EXCEPT !.retries = retries, !.errno = res],
                                        "OSError")
                            ELSE [ctor EXCEPT !.retries = retries, !.errno = res,
                                              !.sleeps = @ + 1]
                 /\ UNCHANGED <<fdtab, gpio, call>>
    /\ UNCHANGED <<sysfsVars, chips, ret, level, dir, edgeLog, pollLog>>

\* A slip of OpenAttempt: the loop gives up at the RetryLimit-th try, one
\* try early.
OpenAttemptGivesUpEarly(g) ==
    /\ ctor.pc = "open"
    /\ LET retries == ctor.retries + 1
       IN  \E res \in OpenResults :
            IF res = "ok"
            THEN /\ fdtab' = OpenFd(fdtab, "chip", ctor.name[1], 0, 0)
                 /\ gpio' = gpio @@ (g :> [fd |-> Some(LowestFree(fdtab)),
                                           pin |-> ctor.pin[1],
                                           name |-> ctor.name[1],
                                           line_offset |-> ctor.line_offset,
                                           mode |-> ctor.mode])
                 /\ call' = call @@ (g :> Done("__init__", "None", 0))
                 /\ ctor' = IF ctor.mode = GPIO_OUT /\ ctor.initial /= None
                            THEN [ctor EXCEPT !.retries = retries, !.errno = "",
                                              !.pc = "set"]
                            ELSE [ctor EXCEPT !.retries = retries, !.errno = "",
                                              !.pc = "returned", !.out = "None"]
            ELSE /\ ctor' = IF res /= "EACCES" \/ retries >= RetryLimit
                            THEN Raised([ctor EXCEPT !.retries = retries, !.errno = res],
                                        "OSError")
                            ELSE [ctor EXCEPT !.retries = retries, !.errno = res,
                                              !.sleeps = @ + 1]
                 /\ UNCHANGED <<fdtab, gpio, call>>
    /\ UNCHANGED <<sysfsVars, chips, ret, level, dir, edgeLog, pollLog>>

\* A slip of OpenAttempt: set(initial) is called for an input too.
OpenAttemptNoModeTest(g) ==
    /\ ctor.pc = "open"
    /\ LET retries == ctor.retries + 1
       IN  \E res \in OpenResults :
            IF res = "ok"
            THEN /\ fdtab' = OpenFd(fdtab, "chip", ctor.name[1], 0, 0)
                 /\ gpio' = gpio @@ (g :> [fd |-> Some(LowestFree(fdtab)),
                                           pin |-> ctor.pin[1],
                                           name |-> ctor.name[1],
                                           line_offset |-> ctor.line_offset,
                                           mode |-> ctor.mode])
                 /\ call' = call @@ (g :> Done("__init__", "None", 0))
                 /\ ctor' = IF ctor.initial /= None
                            THEN [ctor EXCEPT !.retries = retries, !.errno = "",
                                              !.pc = "set"]
                            ELSE [ctor EXCEPT !.retries = retries, !.errno = "",
                                              !.pc = "returned", !.out = "None"]
            ELSE /\ ctor' = IF res /= "EACCES" \/ retries > RetryLimit
                            THEN Raised([ctor EXCEPT !.retries = retries, !.errno = res],
                                        "OSError")
                            ELSE [ctor EXCEPT !.retries = retries, !.errno = res,
                                              !.sleeps = @ + 1]
                 /\ UNCHANGED <<fdtab, gpio, call>>
    /\ UNCHANGED <<sysfsVars, chips, ret, level, dir, edgeLog, pollLog>>

\* One turn of the loop: os.open of the controller for reading and
\* writing.  When it succeeds the loop is left and _pin and _mode are set.
\* When it fails with permission denied and this was not yet the try after
\* the RetryLimit-th, the thread sleeps and the loop turns again; any other
\* failure is raised.
OpenAttempt(g) ==
    /\ ctor.pc = "open"
    /\ LET retries == ctor.retries + 1
       IN  \E res \in OpenResults :
            IF res = "ok"
            THEN /\ fdtab' = OpenFd(fdtab, "chip", ctor.name[1], 0, 0)
                 /\ gpio' = gpio @@ (g :> [fd |-> Some(LowestFree(fdtab)),
                                           pin |-> ctor.pin[1],
                                           name |-> ctor.name[1],
                                           line_offset |-> ctor.line_offset,
                                           mode |-> ctor.mode])
                 /\ call' = call @@ (g :> Done("__init__", "None", 0))
                 /\ ctor' = IF ctor.mode = GPIO_OUT /\ ctor.initial /= None
                            THEN [ctor EXCEPT !.retries = retries, !.errno = "",
                                              !.pc = "set"]
                            ELSE [ctor EXCEPT !.retries = retries, !.errno = "",
                                              !.pc = "returned", !.out = "None"]
            ELSE /\ ctor' = IF res /= "EACCES" \/ retries > RetryLimit
                            THEN Raised([ctor EXCEPT !.retries = retries, !.errno = res],
                                        "OSError")
                            ELSE [ctor EXCEPT !.retries = retries, !.errno = res,
                                              !.sleeps = @ + 1]
                 /\ UNCHANGED <<fdtab, gpio, call>>
    /\ UNCHANGED <<sysfsVars, chips, ret, level, dir, edgeLog, pollLog>>

\* self.set(initial) in __init__, up to and including the line-handle
\* request of set(): the handle is requested with default value 0.  An
\* exception of set() leaves __init__.
CtorSetCall(g) ==
    /\ ctor.pc = "set"
    /\ call[g].pc = "done"
    /\ \E ok \in BOOLEAN :
        IF gpio[g].mode /= GPIO_OUT
        THEN /\ call' = [call EXCEPT ![g] = Done("set", "RuntimeError", 0)]
             /\ ctor' = Raised([ctor EXCEPT !.sets = @ + 1], "RuntimeError")
             /\ UNCHANGED <<fdtab, dir, level, edgeLog>>
        ELSE IF ok /\ ~Busy(fdtab, LineOf(g))
        THEN /\ LineGoes(OpenFd(fdtab, "handle", gpio[g].name, gpio[g].line_offset,
                                _GPIOHANDLE_REQUEST_OUTPUT),
                         LineOf(g), FALSE)
             /\ dir' = [dir EXCEPT ![LineOf(g)] = GPIO_OUT]
             /\ call' = [call EXCEPT ![g] =
                    Running("set", "values", ctor.initial, LowestFree(fdtab))]
             /\ ctor' = [ctor EXCEPT !.sets = @ + 1]
        ELSE /\ call' = [call EXCEPT ![g] = Done("set", "OSError", 1)]
             /\ ctor' = Raised([ctor EXCEPT !.sets = @ + 1], "OSError")
             /\ UNCHANGED <<fdtab, dir, level, edgeLog>>
    /\ UNCHANGED <<sysfsVars, chips, ret, gpio, pollLog>>

\* self.set(initial) in __init__, from the set-values call of set() to
\* the return of __init__.
CtorSetReturn(g) ==
    /\ ctor.pc = "set"
    /\ call[g].op = "set"
    /\ call[g].pc = "values"
    /\ \E ok \in BOOLEAN :
        IF ok
        THEN /\ LineGoes(CloseFd(fdtab, call[g].fd), LineOf(g), Bool(call[g].arg[1]))
             /\ call' = [call EXCEPT ![g] = DoneSet(call[g].arg)]
             /\ ctor' = [ctor EXCEPT !.pc = "returned", !.out = "None"]
        ELSE /\ fdtab' = CloseFd(fdtab, call[g].fd)
             /\ call' = [call EXCEPT ![g] = Done("set", "OSError", 2)]
             /\ ctor' = Raised(ctor, "OSError")
             /\ UNCHANGED <<level, edgeLog>>
    /\ UNCHANGED <<sysfsVars, chips, ret, gpio, dir, pollLog>>

\* gpio.mode = mode on the object __init__ has returned.  mode is a
\* property with a getter only, so the assignment raises AttributeError
\* and self._mode stays what __init__ made it.
ModeAssign(g, mode) ==
    /\ ctor.pc = "returned"
    /\ Idle(g)
    /\ call' = [call EXCEPT ![g] = [Done("mode", "AttributeError", 0) EXCEPT !.arg = Some(mode)]]
    /\ UNCHANGED <<sysfsVars, chips, ret, ctor, gpio, fdtab, level, dir, edgeLog, pollLog>>

\* Before the call of __init__: no object, no descriptor, every line an
\* input at some level.
ConstructInit ==
    /\ chips = BoardChips
    /\ ret = NoCall
    /\ gpio = <<>>
    /\ call = <<>>
    /\ fdtab = <<>>
    /\ \E v \in BOOLEAN : level = [ln \in BoardLines |-> v]
    /\ dir = [ln \in BoardLines |-> GPIO_IN]
    /\ edgeLog = <<>>
    /\ pollLog = <<>>
    /\ ctor = NoCtor
    /\ SysfsUnused

ConstructNext ==
    \/ \E g \in Objs, arg \in CtorPins, mode \in CtorModes, initial \in CtorInitials,
          py2 \in BOOLEAN, force_own \in BOOLEAN :
            Construct(g, arg, mode, initial, py2, force_own)
    \/ \E g \in Objs : OpenAttempt(g)
    \/ \E g \in Objs : CtorSetCall(g)
    \/ \E g \in Objs : CtorSetReturn(g)

ConstructSpec == ConstructInit /\ [][ConstructNext]_vars

\* The thread that runs __init__ is scheduled: the loop takes its next
\* turn.
ConstructFairSpec == ConstructSpec /\ WF_vars(\E g \in Objs : OpenAttempt(g))

\* A program that makes a GPIO object and then assigns to its mode, as
\* test_open_close does.
ModeNext ==
    \/ ConstructNext
    \/ \E g \in Objs, mode \in {GPIO_IN, GPIO_OUT} : ModeAssign(g, mode)

ModeSpec == ConstructInit /\ [][ModeNext]_vars

\* A program that has one GPIO object open, on pin 0 or pin 1 as an
\* input or an output, calls GPIO(...) for another object.
OwnInit ==
    /\ chips = BoardChips
    /\ ret = NoCall
    /\ \E pin \in {0, 1}, mode \in {GPIO_IN, GPIO_OUT}, initial \in CtorInitials, lvl \in BOOLEAN :
        LET c == Constructed(pin, mode)
            driven == mode = GPIO_OUT /\ initial /= None
        IN  /\ gpio = ("held" :> c.obj)
            /\ fdtab = c.tab
            /\ call = ("held" :> IF driven THEN DoneSet(initial)
                                 ELSE Done("__init__", "None", 0))
            /\ dir = [ln \in BoardLines |-> IF driven /\ ln = c.line THEN GPIO_OUT
                                             ELSE GPIO_IN]
            /\ level = [ln \in BoardLines |-> IF driven THEN Bool(initial[1]) ELSE lvl]
    /\ edgeLog = <<>>
    /\ pollLog = <<>>
    /\ ctor = NoCtor
    /\ SysfsUnused

OwnSpec == OwnInit /\ [][ConstructNext]_vars

---------------------------------------------------------------------------
(* The sysfs GPIO and its notifier: mio/gpio.py, classes AsyncPoll and     *)
(* GPIO.  One thread (main) owns the GPIO object and calls async_poll and  *)
(* stop; the AsyncPoll thread runs the loop of run().  The kernel notifies *)
(* the value file of an edge the edge attribute asks for, and the          *)
(* notification stands until the value is read.                            *)

\* The timeout run() gives poll(), in tenths of a second.
NotifierTimeout == 1

\* Python's truth of what poll() returns: None and False are false.
Truthy(result) == result = "True"

\* The edge attribute asks for the edge that takes the pin to value v.
EdgeWanted(attr, v) == attr = BOTH \/ (attr = RISING /\ v) \/ (attr = FALLING /\ ~v)

\* The pin changes value; the kernel notifies the value file, while the
\* pin is exported, if the edge attribute asks for this edge.
PinEdge ==
    /\ sysfs.edges < MaxPinEdges
    /\ sysfs' = [sysfs EXCEPT !.value = ~@,
                              !.edges = @ + 1,
                              !.notified = @ \/ (sysfs.open /\
                                                 EdgeWanted(sysfs.edge, ~sysfs.value))]
    /\ UNCHANGED <<main, thread, handler, polled, callbacks, afterStop, chips, ret, gpioVars, cbLog>>

\* async_poll(callback, edge), up to handler.start(): the AsyncPoll object
\* is made with running = False and its thread is started.
AsyncPollCall(e) ==
    /\ main = "idle"
    /\ thread = "none"
    /\ main' = "waiting"
    /\ handler' = [running |-> FALSE, edge |-> e, stops |-> 0]
    /\ thread' = "created"
    /\ UNCHANGED <<sysfs, polled, callbacks, afterStop, chips, ret, gpioVars, cbLog>>

\* A slip of AsyncPollReturn: the handler is returned without the wait
\* for handler.running.
AsyncPollReturnNoWait ==
    /\ main = "waiting"
    /\ main' = "started"
    /\ UNCHANGED <<thread, handler, sysfs, polled, callbacks, afterStop, chips, ret, gpioVars, cbLog>>

\* async_poll, the loop while not handler.running: it is left, and the
\* handler returned, when the flag reads true.
AsyncPollReturn ==
    /\ main = "waiting"
    /\ handler.running
    /\ main' = "started"
    /\ UNCHANGED <<thread, handler, sysfs, polled, callbacks, afterStop, chips, ret, gpioVars, cbLog>>

\* A slip of Stop: stop() flips the flag.
StopToggles ==
    /\ main \in {"started", "stopped"}
    /\ handler.stops < MaxStops
    /\ handler' = [handler EXCEPT !.running = ~@, !.stops = @ + 1]
    /\ main' = "stopped"
    /\ UNCHANGED <<thread, sysfs, polled, callbacks, afterStop, chips, ret, gpioVars, cbLog>>

\* stop(): self.running = False, and nothing else.  The calls are counted
\* in stops.
Stop ==
    /\ main \in {"started", "stopped"}
    /\ handler.stops < MaxStops
    /\ handler' = [handler EXCEPT !.running = FALSE, !.stops = @ + 1]
    /\ main' = "stopped"
    /\ UNCHANGED <<thread, sysfs, polled, callbacks, afterStop, chips, ret, gpioVars, cbLog>>

\* run(), its first statement: self.running = True.
Run ==
    /\ thread = "created"
    /\ handler' = [handler EXCEPT !.running = TRUE]
    /\ thread' = "loop"
    /\ UNCHANGED <<main, sysfs, polled, callbacks, afterStop, chips, ret, gpioVars, cbLog>>

\* run(), the test of while self.running.
LoopTest ==
    /\ thread = "loop"
    /\ thread' = IF handler.running THEN "poll" ELSE "exit"
    /\ UNCHANGED <<main, handler, sysfs, polled, callbacks, afterStop, chips, ret, gpioVars, cbLog>>

\* A slip of PollBegin: run() catches what poll() raises and goes on with
\* the loop.
PollBeginCaught ==
    /\ thread = "poll"
    /\ IF sysfs.open
       THEN /\ sysfs' = [sysfs EXCEPT !.edge = handler.edge]
            /\ thread' = "epoll"
            /\ UNCHANGED polled
       ELSE /\ polled' = [polled EXCEPT !.result = "raised", !.invoked = FALSE]
            /\ thread' = "loop"
            /\ UNCHANGED sysfs
    /\ afterStop' = IF main = "stopped" THEN (IF afterStop < 2 THEN afterStop + 1 ELSE 2)
                    ELSE afterStop
    /\ UNCHANGED <<main, handler, callbacks, chips, ret, gpioVars, cbLog>>

\* GPIO.poll(edge, timeout) up to epoll.register.  On a GPIO that close()
\* has closed and unexported the call raises, and the exception leaves
\* run(); otherwise the edge attribute is written.
PollBegin ==
    /\ thread = "poll"
    /\ IF sysfs.open
       THEN /\ sysfs' = [sysfs EXCEPT !.edge = handler.edge]
            /\ thread' = "epoll"
            /\ UNCHANGED polled
       ELSE /\ polled' = [polled EXCEPT !.result = "raised", !.invoked = FALSE]
            /\ thread' = "dead"
            /\ UNCHANGED sysfs
    /\ afterStop' = IF main = "stopped" THEN (IF afterStop < 2 THEN afterStop + 1 ELSE 2)
                    ELSE afterStop
    /\ UNCHANGED <<main, handler, callbacks, chips, ret, gpioVars, cbLog>>

\* A slip of PollEnd: run() calls poll() without a timeout, so the wait
\* ends only when the value file is notified.
PollEndNoTimeout ==
    /\ thread = "epoll"
    /\ sysfs.notified
    /\ \E seen \in {b \in BOOLEAN : (b => sysfs.notified) /\ (sysfs.open => b = sysfs.notified)} :
        IF seen /\ ~sysfs.open
        THEN /\ polled' = [polled EXCEPT !.result = "raised", !.invoked = FALSE]
             /\ thread' = "dead"
             /\ UNCHANGED <<callbacks, cbLog, sysfs>>
        ELSE LET result == IF seen THEN BoolStr(sysfs.value) ELSE "None"
                 seq == IF seen THEN polled.seq + 1 ELSE polled.seq
             IN  /\ polled' = [result |-> result, invoked |-> Truthy(result), seq |-> seq]
                 /\ thread' = IF Truthy(result) THEN "callback" ELSE "loop"
                 /\ callbacks' = IF Truthy(result) THEN callbacks + 1 ELSE callbacks
                 /\ cbLog' = IF Truthy(result)
                             THEN Append(cbLog, [ev |-> "begin", seq |-> seq])
                             ELSE cbLog
                 /\ sysfs' = IF seen THEN [sysfs EXCEPT !.notified = FALSE] ELSE sysfs
    /\ UNCHANGED <<main, handler, afterStop, chips, ret, gpioVars>>

\* A slip of PollEnd: run() hands the callback to a thread of its own and
\* goes on with the loop.
PollEndSpawns ==
    /\ thread = "epoll"
    /\ sysfs.notified \/ NotifierTimeout >= 0
    /\ \E seen \in {b \in BOOLEAN : (b => sysfs.notified) /\ (sysfs.open => b = sysfs.notified)} :
        IF seen /\ ~sysfs.open
        THEN /\ polled' = [polled EXCEPT !.result = "raised", !.invoked = FALSE]
             /\ thread' = "dead"
             /\ UNCHANGED <<callbacks, cbLog, sysfs>>
        ELSE LET result == IF seen THEN BoolStr(sysfs.value) ELSE "None"
                 seq == IF seen THEN polled.seq + 1 ELSE polled.seq
             IN  /\ polled' = [result |-> result, invoked |-> Truthy(result), seq |-> seq]
                 /\ thread' = "loop"
                 /\ callbacks' = IF Truthy(result) THEN callbacks + 1 ELSE callbacks
                 /\ cbLog' = IF Truthy(result)
                             THEN Append(cbLog, [ev |-> "begin", seq |-> seq])
                             ELSE cbLog
                 /\ sysfs' = IF seen THEN [sysfs EXCEPT !.notified = FALSE] ELSE sysfs
    /\ UNCHANGED <<main, handler, afterStop, chips, ret, gpioVars>>

\* GPIO.poll from epoll.poll(timeout) on, and the if of run().  A
\* notified value file ends the wait and the value is read by get(),
\* which takes the notification; otherwise the wait ends with the
\* timeout and poll() returns None.  When close() came after the
\* register, the wait may still have seen the notification, and then
\* get() raises on the descriptor that is gone.  run() invokes the
\* callback, with no argument, if the result is true.
PollEnd ==
    /\ thread = "epoll"
    /\ sysfs.notified \/ NotifierTimeout >= 0
    /\ \E seen \in {b \in BOOLEAN : (b => sysfs.notified) /\ (sysfs.open => b = sysfs.notified)} :
        IF seen /\ ~sysfs.open
        THEN /\ polled' = [polled EXCEPT !.result = "raised", !.invoked = FALSE]
             /\ thread' = "dead"
             /\ UNCHANGED <<callbacks, cbLog, sysfs>>
        ELSE LET result == IF seen THEN BoolStr(sysfs.value) ELSE "None"
                 seq == IF seen THEN polled.seq + 1 ELSE polled.seq
             IN  /\ polled' = [result |-> result, invoked |-> Truthy(result), seq |-> seq]
                 /\ thread' = IF Truthy(result) THEN "callback" ELSE "loop"
                 /\ callbacks' = IF Truthy(result) THEN callbacks + 1 ELSE callbacks
                 /\ cbLog' = IF Truthy(result)
                             THEN Append(cbLog, [ev |-> "begin", seq |-> seq])
                             ELSE cbLog
                 /\ sysfs' = IF seen THEN [sysfs EXCEPT !.notified = FALSE] ELSE sysfs
    /\ UNCHANGED <<main, handler, afterStop, chips, ret, gpioVars>>

\* The callback returns.
CallbackReturn ==
    /\ thread = "callback"
    /\ thread' = "loop"
    /\ cbLog' = Append(cbLog, [ev |-> "end", seq |-> polled.seq])
    /\ UNCHANGED <<main, handler, sysfs, polled, callbacks, afterStop, chips, ret, gpioVars>>

\* GPIO.close() on the main thread: the value file is closed, self._fd is
\* None and the pin is unexported.
GpioClose ==
    /\ main /= "waiting"
    /\ sysfs.open
    /\ sysfs' = [sysfs EXCEPT !.open = FALSE]
    /\ UNCHANGED <<main, thread, handler, polled, callbacks, afterStop, chips, ret,
                   gpioVars, cbLog>>

\* The steps of the AsyncPoll thread.
ThreadStep == Run \/ LoopTest \/ PollBegin \/ PollEnd \/ CallbackReturn

\* The sysfs GPIO as GPIO(pin, GPIO.IN) leaves it: exported, the value
\* file open, no edge asked for.
NotifierInit ==
    /\ chips = BoardChips
    /\ ret = NoCall
    /\ GpioUnused
    /\ main = "idle"
    /\ thread = "none"
    /\ handler = [running |-> FALSE, edge |-> "none", stops |-> 0]
    /\ \E v \in BOOLEAN :
        sysfs = [value |-> v, edge |-> "none", notified |-> FALSE, edges |-> 0,
                 open |-> TRUE]
    /\ polled = [result |-> "", invoked |-> FALSE, seq |-> 0]
    /\ callbacks = 0
    /\ afterStop = 0
    /\ cbLog = <<>>

NotifierNext ==
    \/ \E e \in {RISING, FALLING, BOTH} : AsyncPollCall(e)
    \/ AsyncPollReturn
    \/ Stop
    \/ Run
    \/ LoopTest
    \/ PollBegin
    \/ PollEnd
    \/ CallbackReturn
    \/ PinEdge
    \/ GpioClose

NotifierSpec == NotifierInit /\ [][NotifierNext]_vars

\* The threads are scheduled: a step of the AsyncPoll thread that stays
\* possible is taken, and so is the return of async_poll.
NotifierFairSpec ==
    /\ NotifierSpec
    /\ WF_vars(ThreadStep)
    /\ WF_vars(AsyncPollReturn)

\* AsyncPoll(gpio, callback, edge).start() by a caller of its own: the
\* object is made with running = False, and Thread.start() returns when
\* the thread exists, whether or not run() has executed a statement.
Start(e) ==
    /\ main = "idle"
    /\ thread = "none"
    /\ main' = "started"
    /\ handler' = [running |-> FALSE, edge |-> e, stops |-> 0]
    /\ thread' = "created"
    /\ UNCHANGED <<sysfs, polled, callbacks, afterStop, chips, ret, gpioVars, cbLog>>

\* A program that starts the thread itself and may call stop() at once.
DirectNext ==
    \/ \E e \in {RISING, FALLING, BOTH} : Start(e)
    \/ Stop
    \/ Run
    \/ LoopTest
    \/ PollBegin
    \/ PollEnd
    \/ CallbackReturn
    \/ PinEdge
    \/ GpioClose

DirectSpec == NotifierInit /\ [][DirectNext]_vars

\* The thread is scheduled.
DirectFairSpec == DirectSpec /\ WF_vars(ThreadStep)

---------------------------------------------------------------------------
(* get() of the sysfs GPIO on two threads.  The main thread and the poll() *)
(* of the AsyncPoll thread both call get(), which is readstr(self._fd):    *)
(* os.lseek(f, 0, os.SEEK_SET) and then os.read(f, maxsize), two system    *)
(* calls on the one descriptor and so on the one file offset, with no      *)
(* lock around them.  The value file holds one digit and a newline; a read *)
(* at offset 0 gives both and moves the offset behind them, a read there   *)
(* gives the empty string, and int() of the empty string raises            *)
(* ValueError.                                                             *)

\* The size of the value file: a digit and a newline.
ValueFileSize == 2

\* os.read(fd, maxsize) at the file offset pos: the digit of the pin's
\* value, or nothing at the end of the file.
ReadAt(pos) == IF pos = 0 THEN (IF sysfs.value THEN "1" ELSE "0") ELSE ""

\* get() on the main thread: os.lseek(self._fd, 0, os.SEEK_SET).
MainSeek ==
    /\ main = "started"
    /\ sysfs.open
    /\ main' = "seeked"
    /\ sysfs' = [sysfs EXCEPT !.pos = 0]
    /\ UNCHANGED <<thread, handler, polled, callbacks, afterStop, chips, ret, gpioVars, cbLog>>

\* get() on the main thread: os.read, strip, int and bool.  A read of the
\* value takes the notification of the value file.
MainRead ==
    /\ main = "seeked"
    /\ LET data == ReadAt(sysfs.pos)
       IN  IF data = ""
           THEN /\ main' = "raised"
                /\ UNCHANGED sysfs
           ELSE /\ main' = "started"
                /\ sysfs' = [sysfs EXCEPT !.pos = ValueFileSize, !.notified = FALSE]
    /\ UNCHANGED <<thread, handler, polled, callbacks, afterStop, chips, ret, gpioVars, cbLog>>

\* GPIO.poll on the AsyncPoll thread, from epoll.poll(timeout) to the
\* os.lseek of its get(): without a notification the wait ends with the
\* timeout and poll() returns None.
PollWake ==
    /\ thread = "epoll"
    /\ IF sysfs.notified
       THEN /\ thread' = "seeked"
            /\ sysfs' = [sysfs EXCEPT !.pos = 0]
            /\ UNCHANGED polled
       ELSE /\ thread' = "loop"
            /\ polled' = [polled EXCEPT !.result = "None", !.invoked = FALSE]
            /\ UNCHANGED sysfs
    /\ UNCHANGED <<main, handler, callbacks, afterStop, chips, ret, gpioVars, cbLog>>

\* GPIO.poll on the AsyncPoll thread, from the os.read of its get() to
\* the if of run(): the ValueError of an empty read leaves run().
PollRead ==
    /\ thread = "seeked"
    /\ LET data == ReadAt(sysfs.pos)
           result == BoolStr(data = "1")
           seq == polled.seq + 1
       IN  IF data = ""
           THEN /\ polled' = [polled EXCEPT !.result = "raised", !.invoked = FALSE]
                /\ thread' = "dead"
                /\ UNCHANGED <<callbacks, cbLog, sysfs>>
           ELSE /\ polled' = [result |-> result, invoked |-> Truthy(result), seq |-> seq]
                /\ thread' = IF Truthy(result) THEN "callback" ELSE "loop"
                /\ callbacks' = IF Truthy(result) THEN callbacks + 1 ELSE callbacks
                /\ cbLog' = IF Truthy(result)
                            THEN Append(cbLog, [ev |-> "begin", seq |-> seq])
                            ELSE cbLog
                /\ sysfs' = [sysfs EXCEPT !.pos = ValueFileSize, !.notified = FALSE]
    /\ UNCHANGED <<main, handler, afterStop, chips, ret, gpioVars>>

\* async_poll has returned: the thread is in its loop, the main thread
\* goes on to use the GPIO, and the value descriptor is at the offset a
\* fresh open leaves it at.
RaceInit ==
    /\ chips = BoardChips
    /\ ret = NoCall
    /\ GpioUnused
    /\ main = "started"
    /\ thread = "loop"
    /\ \E e \in {RISING, FALLING, BOTH} :
        handler = [running |-> TRUE, edge |-> e, stops |-> 0]
    /\ \E v \in BOOLEAN :
        sysfs = [value |-> v, edge |-> "none", notified |-> FALSE, edges |-> 0,
                 open |-> TRUE, pos |-> 0]
    /\ polled = [result |-> "", invoked |-> FALSE, seq |-> 0]
    /\ callbacks = 0
    /\ afterStop = 0
    /\ cbLog = <<>>

RaceNext ==
    \/ MainSeek
    \/ MainRead
    \/ LoopTest
    \/ PollBegin
    \/ PollWake
    \/ PollRead
    \/ CallbackReturn
    \/ PinEdge

RaceSpec == RaceInit /\ [][RaceNext]_vars

---------------------------------------------------------------------------
(* The request codes: mpio/ioctl.py and the constants of mpio/gpio.py.     *)
(* Python's integers have no width and a request code with direction 2 or  *)
(* 3 is above 2^31, so a number that is shifted or or-ed is kept as the    *)
(* set of the positions of its 1 bits: x << k moves every position up by   *)
(* k, and x | y is the union.                                              *)

_IOC_NRBITS == 8

_IOC_TYPEBITS == 8

_IOC_SIZEBITS == 14

_IOC_DIRBITS == 2

_IOC_NRSHIFT == 0

_IOC_TYPESHIFT == _IOC_NRSHIFT + _IOC_NRBITS

_IOC_SIZESHIFT == _IOC_TYPESHIFT + _IOC_TYPEBITS

_IOC_DIRSHIFT == _IOC_SIZESHIFT + _IOC_SIZEBITS

IOC_WRITE == 1

IOC_READ == 2

_GPIOHANDLES_MAX == 64

\* The widest argument of IOC in the model, in bits.
ArgBits == 16

\* The positions of the 1 bits of x, for 0 <= x < 2^ArgBits.
Bits(x) == {i \in 0..(ArgBits - 1) : (x \div (2 ^ i)) % 2 = 1}

\* x << k
Shl(B, k) == {i + k : i \in B}

\* x | y
BitOr(A, B) == A \cup B

\* The size of one item of a struct format in standard mode ("="), where
\* nothing is padded: I is 4 bytes, B and s are 1.
ItemSize(c) == IF c = "I" THEN 4 ELSE 1

\* struct.calcsize(fmt) of a format "=" followed by the items of fmt, each
\* a repeat count and a code.
RECURSIVE calcsize(_)
calcsize(fmt) ==
    IF fmt = <<>> THEN 0
    ELSE Head(fmt)[1] * ItemSize(Head(fmt)[2]) + calcsize(Tail(fmt))

\* The size argument of IOC is an int or a format string.
SizeInt(n) == [int |-> n]

SizeStr(fmt) == [str |-> fmt]

\* A slip of IOC: size and type are shifted to each other's place.
IOCSwapsSizeAndType(direction, itype, nr, size) ==
    LET sz == IF "str" \in DOMAIN size THEN calcsize(size.str) ELSE size.int
    IN  BitOr(BitOr(BitOr(Shl(Bits(direction), _IOC_DIRSHIFT),
                          Shl(Bits(itype), _IOC_SIZESHIFT)),
                    Shl(Bits(nr), _IOC_NRSHIFT)),
              Shl(Bits(sz), _IOC_TYPESHIFT))

\* IOC(direction, itype, nr, size): a str size is replaced by its
\* calcsize, and the four shifted fields are or-ed.
IOC(direction, itype, nr, size) ==
    LET sz == IF "str" \in DOMAIN size THEN calcsize(size.str) ELSE size.int
    IN  BitOr(BitOr(BitOr(Shl(Bits(direction), _IOC_DIRSHIFT),
                          Shl(Bits(itype), _IOC_TYPESHIFT)),
                    Shl(Bits(nr), _IOC_NRSHIFT)),
              Shl(Bits(sz), _IOC_SIZESHIFT))

IOR(itype, nr, size) == IOC(IOC_READ, itype, nr, size)

\* IOC_READ | IOC_WRITE is 3.
IOWR(itype, nr, size) == IOC(IOC_READ + IOC_WRITE, itype, nr, size)

\* The six request codes of mpio/gpio.py, 0xB4 being 180.
RequestNames ==
    {"_GPIO_GET_CHIPINFO_IOCTL", "_GPIO_GET_LINEINFO_IOCTL", "_GPIO_GET_LINEHANDLE_IOCTL",
     "_GPIO_GET_LINEEVENT_IOCTL", "_GPIOHANDLE_GET_LINE_VALUES_IOCTL",
     "_GPIOHANDLE_SET_LINE_VALUES_IOCTL"}

RequestCode(r) ==
    CASE r = "_GPIOHANDLE_GET_LINE_VALUES_IOCTL" ->
            IOWR(180, 8, SizeStr(<< <<_GPIOHANDLES_MAX, "B">> >>))
      [] r = "_GPIOHANDLE_SET_LINE_VALUES_IOCTL" ->
            IOWR(180, 9, SizeStr(<< <<_GPIOHANDLES_MAX, "B">> >>))
      [] r = "_GPIO_GET_CHIPINFO_IOCTL" ->
            IOR(180, 1, SizeStr(<< <<32, "s">>, <<32, "s">>, <<1, "I">> >>))
      [] r = "_GPIO_GET_LINEINFO_IOCTL" ->
            IOWR(180, 2, SizeStr(<< <<1, "I">>, <<1, "I">>, <<32, "s">>, <<32, "s">> >>))
      [] r = "_GPIO_GET_LINEHANDLE_IOCTL" ->
            IOWR(180, 3, SizeStr(<< <<_GPIOHANDLES_MAX, "I">>, <<1, "I">>,
                                <<_GPIOHANDLES_MAX, "B">>, <<32, "s">>, <<1, "I">>,
                                <<1, "I">> >>))
      [] r = "_GPIO_GET_LINEEVENT_IOCTL" ->
            IOWR(180, 4, SizeStr(<< <<1, "I">>, <<1, "I">>, <<1, "I">>, <<32, "s">>,
                                <<1, "I">> >>))

\* The size and the alignment of a ctypes type: c_uint and c_int are 4
\* bytes, c_char and c_ubyte 1.
CtypeSize(t) == IF t \in {"c_uint", "c_int"} THEN 4 ELSE 1

\* x rounded up to a multiple of a.
AlignUp(x, a) == ((x + a - 1) \div a) * a

\* ctypes.sizeof of a Structure with the fields _fields_, each a type and
\* an array length: every field starts at a multiple of its alignment, and
\* the size is a multiple of the largest alignment.
RECURSIVE FieldsEnd(_, _)
FieldsEnd(fields, at) ==
    IF fields = <<>> THEN at
    ELSE FieldsEnd(Tail(fields),
                   AlignUp(at, CtypeSize(Head(fields)[1]))
                   + Head(fields)[2] * CtypeSize(Head(fields)[1]))

sizeof(fields) ==
    LET align == IF \E i \in 1..Len(fields) : CtypeSize(fields[i][1]) = 4 THEN 4 ELSE 1
    IN  AlignUp(FieldsEnd(fields, 0), align)

\* What is exchanged with each request: the structures of mpio/gpio.py,
\* and for the values requests the array of _GPIOHANDLES_MAX bytes.
Exchanged(r) ==
    CASE r = "_GPIO_GET_CHIPINFO_IOCTL" ->
            << <<"c_char", 32>>, <<"c_char", 32>>, <<"c_uint", 1>> >>
      [] r = "_GPIO_GET_LINEINFO_IOCTL" ->
            << <<"c_uint", 1>>, <<"c_uint", 1>>, <<"c_char", 32>>, <<"c_char", 32>> >>
      [] r = "_GPIO_GET_LINEHANDLE_IOCTL" ->
            << <<"c_uint", _GPIOHANDLES_MAX>>, <<"c_uint", 1>>,
               <<"c_ubyte", _GPIOHANDLES_MAX>>, <<"c_char", 32>>, <<"c_uint", 1>>,
               <<"c_int", 1>> >>
      [] r = "_GPIO_GET_LINEEVENT_IOCTL" ->
            << <<"c_uint", 1>>, <<"c_uint", 1>>, <<"c_uint", 1>>, <<"c_char", 32>>,
               <<"c_int", 1>> >>
      [] OTHER -> << <<"c_ubyte", _GPIOHANDLES_MAX>> >>

\* The arguments IOC is called with in the model: every direction; for
\* the other fields 0, the largest value, every power of two and the
\* values mpio/gpio.py uses.
IocDirs == 0..3

IocTypes == {0, 1, 180, 255}

IocNrs == {0, 1, 2, 3, 4, 8, 9, 255}

IocSizes == {0, 48, 64, 68, 72, 364, 2 ^ _IOC_SIZEBITS - 1} \cup
            {2 ^ i : i \in 0..(_IOC_SIZEBITS - 1)}

\* A caller computes a request code from the four numbers it has chosen.
CallIOC ==
    /\ ret.op = "arguments"
    /\ LET direction == ret.arg[1][1]
           itype == ret.arg[1][2]
           nr == ret.arg[1][3]
           size == ret.arg[1][4]
       IN  ret' = [ret EXCEPT !.op = "IOC",
                              !.out = Some(IOC(direction, itype, nr, SizeInt(size)))]
    /\ UNCHANGED <<chips, gpioVars, sysfsVars>>

\* The module mpio/gpio.py computes the request code it is about to
\* define.
CallRequestCode ==
    /\ ret.op = "name"
    /\ ret' = [ret EXCEPT !.op = "request", !.out = Some(RequestCode(ret.arg[1]))]
    /\ UNCHANGED <<chips, gpioVars, sysfsVars>>

\* The arguments of the one call of a run are chosen before it.
IocInit ==
    /\ chips = BoardChips
    /\ \/ \E direction \in IocDirs, itype \in IocTypes, nr \in IocNrs, size \in IocSizes :
            ret = [op |-> "arguments", arg |-> Some(<<direction, itype, nr, size>>),
                   out |-> None, opened |-> 0, closed |-> 0]
       \/ \E r \in RequestNames :
            ret = [op |-> "name", arg |-> Some(r), out |-> None, opened |-> 0,
                   closed |-> 0]
    /\ GpioUnused
    /\ SysfsUnused

IocNext ==
    \/ CallIOC
    \/ CallRequestCode

IocSpec == IocInit /\ [][IocNext]_vars

---------------------------------------------------------------------------
(* What the resolver is to compute, stated without its loops.              *)

\* The device names of the model in string order: gpiochip1, gpiochip10,
\* gpiochip2.
LexOrder == << <<1>>, <<1, 0>>, <<2>> >>

IsPresent(dev) == dev \in DOMAIN chips

\* The controllers present, in string order of their names.
PresentDevs == SelectSeq(LexOrder, IsPresent)

\* c_0 + ... + c_(i-1): the lines of the first i controllers.
RECURSIVE LinesBefore(_)
LinesBefore(i) ==
    IF i = 0 THEN 0 ELSE LinesBefore(i - 1) + Len(chips[PresentDevs[i]])

TotalLines == LinesBefore(Len(PresentDevs))

\* The line names of all controllers, concatenated in controller order.
RECURSIVE NamesUpTo(_)
NamesUpTo(i) ==
    IF i = 0 THEN <<>> ELSE NamesUpTo(i - 1) \o chips[PresentDevs[i]]

FlatNames == NamesUpTo(Len(PresentDevs))

\* C1: enumerate() returns exactly 0, 1, ..., N-1, N the sum of the line
\* counts of all controllers; a controller without lines adds nothing.
C1_EnumerateIsRange ==
    ret.op = "enumerate" => ret.out = [i \in 1..TotalLines |-> i - 1]

\* enumerate() has run on a system with a controller without lines between
\* controllers that have lines.
C1_Witness ==
    /\ ret.op = "enumerate"
    /\ Len(ret.out) >= 3
    /\ DOMAIN chips = DevNames
    /\ Len(chips[<<1, 0>>]) = 0

\* C2: _pin_lookup takes the controllers in string order of their names
\* (gpiochip10 before gpiochip2) and answers, for a pin p in [0, N), the
\* one controller i with c_0+..+c_(i-1) <= p < c_0+..+c_i and the offset
\* p - (c_0+..+c_(i-1)); for every other pin it answers not found.
C2_PinLookupByPrefixSum ==
    ret.op = "_pin_lookup" =>
        LET p == ret.arg[1]
        IN  IF p \in 0..(TotalLines - 1)
            THEN \E i \in 1..Len(PresentDevs) :
                    /\ LinesBefore(i - 1) <= p
                    /\ p < LinesBefore(i)
                    /\ ret.out = <<PresentDevs[i], p - LinesBefore(i - 1)>>
            ELSE ret.out = None

\* _pin_lookup has found a pin at offset 0 of gpiochip2 that follows the
\* lines of gpiochip10, and has answered not found for the pin N.
C2_Witness ==
    /\ ret.op = "_pin_lookup"
    /\ DOMAIN chips = {<<1, 0>>, <<2>>}
    /\ Len(chips[<<1, 0>>]) = MaxLines
    /\ ret.arg = Some(MaxLines)
    /\ ret.out = << <<2>>, 0 >>

\* C3 as stated: for every valid pin p, _name_lookup(pin_to_name(p)) = p,
\* whatever names the lines bear.
C3_RoundTripIsIdentity ==
    (ret.op = "roundtrip" /\ ret.arg[1] \in 0..(TotalLines - 1)) =>
        ret.out = Some(ret.arg[1])

\* C3 as amended: for every valid pin p, _name_lookup(pin_to_name(p)) is
\* the least pin whose line bears the name of p's line; it is p exactly
\* when no line before p's bears that name.
C3_RoundTripIsFirstOfName ==
    (ret.op = "roundtrip" /\ ret.arg[1] \in 0..(TotalLines - 1)) =>
        LET p == ret.arg[1]
            q == CHOOSE k \in 0..p :
                    /\ FlatNames[k + 1] = FlatNames[p + 1]
                    /\ \A j \in 0..(k - 1) : FlatNames[j + 1] /= FlatNames[p + 1]
        IN  /\ ret.out = Some(q)
            /\ (q = p) <=> (\A j \in 0..(p - 1) : FlatNames[j + 1] /= FlatNames[p + 1])

\* The round trip has run on a pin of a later controller whose name an
\* earlier line bears too, and has answered that earlier line's pin.
C3_Witness ==
    /\ ret.op = "roundtrip"
    /\ ret.arg[1] \in 0..(TotalLines - 1)
    /\ ret.arg[1] >= MaxLines
    /\ ret.out /= None
    /\ ret.out[1] < ret.arg[1]
    /\ FlatNames[ret.arg[1] + 1] = "PA0"

---------------------------------------------------------------------------
(* The GPIO object's claims.                                               *)

InCall(g) == call[g].pc /= "done"

\* C4: the descriptor a get(), set() or poll() obtained from the kernel is
\* closed when the call has returned or raised: the open handle and event
\* descriptors are those of the calls in progress, and there is none when
\* no call is in progress.
C4_SecondaryFdsClosed ==
    /\ SecondaryFds(fdtab) = {call[g].fd : g \in {h \in DOMAIN gpio : InCall(h)}}
    /\ (\A g \in DOMAIN gpio : ~InCall(g)) => SecondaryFds(fdtab) = {}

\* A get() on an open GPIO has raised from its get-values call, after a
\* poll() that had subscribed raised too, and no call is in progress.
C4_Witness ==
    \E g \in DOMAIN gpio :
        /\ gpio[g].fd /= None
        /\ call[g] = Done("get", "OSError", 2)
        /\ \E i \in 1..Len(pollLog) :
            pollLog[i].out = "OSError" /\ pollLog[i].retAt > pollLog[i].subAt

\* C5: get() on an output GPIO and set(v) on an input GPIO raise the
\* wrong-mode error without a device-control call, and leave the object,
\* the descriptors and the line as they were.
C5_WrongModeNoRequest ==
    [][\A g \in Objs :
        /\ (GetCall(g) /\ gpio[g].mode = GPIO_OUT) =>
                /\ call'[g] = Done("get", "RuntimeError", 0)
                /\ UNCHANGED <<gpio, fdtab, level, dir, edgeLog>>
        /\ \A value \in SetArgs :
            (SetCall(g, value) /\ gpio[g].mode = GPIO_IN) =>
                /\ call'[g] = Done("set", "RuntimeError", 0)
                /\ UNCHANGED <<gpio, fdtab, level, dir, edgeLog>>
      ]_vars

\* get() has raised the wrong-mode error on an open output GPIO.
C5_Witness ==
    \E g \in DOMAIN gpio :
        /\ gpio[g].fd /= None
        /\ gpio[g].mode = GPIO_OUT
        /\ call[g] = Done("get", "RuntimeError", 0)

IsError(out) == out \in {"OSError", "TypeError", "ValueError", "RuntimeError"}

\* C10 as stated: when a rising and then a falling edge follow the
\* subscription of a poll() on both edges, that poll() and the next one on
\* both edges return rising and falling, in this order.
C10_RisingThenFalling ==
    \A i \in 1..(Len(pollLog) - 1) :
        LET first == pollLog[i]
            second == pollLog[i + 1]
        IN  ( /\ first.edge = BOTH /\ second.edge = BOTH
              /\ ~IsError(first.out) /\ ~IsError(second.out)
              /\ first.retAt = first.subAt + 2
              /\ second.retAt = first.subAt + 2
              /\ edgeLog[first.subAt + 1].id = _GPIOEVENT_EVENT_RISING_EDGE
              /\ edgeLog[first.subAt + 2].id = _GPIOEVENT_EVENT_FALLING_EDGE )
            => (first.out = RISING /\ second.out = FALLING)

---------------------------------------------------------------------------
(* The notifier's claims.                                                  *)

\* C6 as stated: once stop() has returned, the callback is not invoked
\* again, however stop() interleaves with the loop and with the edges.
C6_NoCallbackAfterStop ==
    [][main = "stopped" => callbacks' = callbacks]_vars

\* C7: async_poll returns only when the thread has executed the first
\* statement of run(), which sets running; and once the threads are
\* scheduled its wait for the flag ends.
C7_ReturnsWhenLoopBegun ==
    /\ [](main \in {"started", "stopped"} => thread \notin {"none", "created"})
    /\ (main = "waiting" ~> main = "started")

\* async_poll has returned; the thread is inside its first poll() and the
\* flag is still set.
C7_Witness ==
    /\ main = "started"
    /\ thread = "epoll"
    /\ handler.running
    /\ polled.result = ""

\* C8: after stop() on a notifier async_poll returned, the thread leaves
\* its loop: it begins at most one more poll(), every poll() ends with
\* its timeout at the latest, and stop() has returned.
C8_LoopExitsAfterStop ==
    /\ (main = "stopped" ~> thread \in {"exit", "dead"})
    /\ [](afterStop <= 1)

\* stop() has returned, the thread began one poll() after it and has left
\* its loop.
C8_Witness ==
    /\ main = "stopped"
    /\ afterStop = 1
    /\ thread = "exit"

\* C9 as stated: in the loop every poll() that returns a result other
\* than the timeout's None is followed by one invocation of the callback,
\* and every poll() that returns None is followed by none.
C9_CallbackPerEdge ==
    /\ polled.result \in {"True", "False"} => polled.invoked
    /\ polled.result = "None" => ~polled.invoked

---------------------------------------------------------------------------
(* The claims about set(), close() and the loopback.                       *)

\* C11 as stated: set(v) requests its output handle with the default
\* value v, so that from the grant of the handle until the set-values
\* call the line is at v.
C11_HandleDefaultIsValue ==
    \A g \in DOMAIN gpio :
        (call[g].op = "set" /\ call[g].pc = "values")
            => level[LineOf(g)] = Bool(call[g].arg[1])

\* C12 as stated: on a closed GPIO every get(), set() and poll() raises
\* the use-after-close error, the TypeError of a descriptor that is None,
\* whatever the mode, and makes no device-control call.
C12_UseAfterCloseError ==
    [][\A g \in Objs : gpio[g].fd = None =>
        /\ GetCall(g) => (call'[g].out = "TypeError" /\ call'[g].ioctls = 0)
        /\ \A value \in SetArgs :
            SetCall(g, value) => (call'[g].out = "TypeError" /\ call'[g].ioctls = 0)
        /\ \A edge \in EdgeArgs, timeout \in TimeoutArgs :
            PollCall(g, edge, timeout) =>
                (call'[g].out = "TypeError" /\ call'[g].ioctls = 0)
      ]_vars

\* C12, amended: on a closed GPIO every get(), set() and poll() raises
\* without a device-control call and changes nothing; the error is the
\* one of the mode or edge test when that test fails, and the TypeError
\* of a descriptor that is None otherwise.
C12_FailsAfterClose ==
    [][\A g \in Objs : gpio[g].fd = None =>
        /\ GetCall(g) =>
            /\ call'[g] = Done("get",
                    IF gpio[g].mode = GPIO_IN THEN "TypeError" ELSE "RuntimeError", 0)
            /\ UNCHANGED <<gpio, fdtab, level, dir, edgeLog, pollLog>>
        /\ \A value \in SetArgs :
            SetCall(g, value) =>
                /\ call'[g] = Done("set",
                        IF gpio[g].mode = GPIO_OUT THEN "TypeError" ELSE "RuntimeError", 0)
                /\ UNCHANGED <<gpio, fdtab, level, dir, edgeLog, pollLog>>
        /\ \A edge \in EdgeArgs, timeout \in TimeoutArgs :
            PollCall(g, edge, timeout) =>
                /\ call'[g] = Done("poll",
                        IF edge \in {RISING, FALLING, BOTH} THEN "TypeError"
                        ELSE "ValueError", 0)
                /\ UNCHANGED <<gpio, fdtab, level, dir, edgeLog, pollLog>>
      ]_vars

\* set() has raised the TypeError on a closed output GPIO, and no
\* descriptor is left but the one the pin lookup leaked.
C12_Witness ==
    \E g \in DOMAIN gpio :
        /\ gpio[g].fd = None
        /\ gpio[g].mode = GPIO_OUT
        /\ call[g] = Done("set", "TypeError", 0)
        /\ \A n \in DOMAIN fdtab : fdtab[n].kind = "chip_ro"

\* C13: close() returns without raising in every state.  On an open GPIO
\* it closes the controller descriptor, which is open at that moment, and
\* sets self._fd to None; on a closed GPIO it changes nothing.  The
\* descriptor of an open GPIO is open and a closed GPIO has none, so it is
\* never closed a second time.
C13_CloseIdempotent ==
    /\ [](\A g \in DOMAIN gpio :
            IF gpio[g].fd = None
            THEN ChipFds(fdtab) = {}
            ELSE ChipFds(fdtab) = {gpio[g].fd[1]})
    /\ [][\A g \in Objs : Close(g) =>
            /\ call'[g] = Done("close", "None", 0)
            /\ gpio'[g].fd = None
            /\ IF gpio[g].fd = None
               THEN UNCHANGED <<gpio, fdtab>>
               ELSE fdtab' = CloseFd(fdtab, gpio[g].fd[1])
            /\ UNCHANGED <<level, dir, edgeLog, pollLog>>
        ]_vars

\* close() has returned on a GPIO that is closed, after a poll() that
\* subscribed; its controller descriptor is gone.
C13_Witness ==
    \E g \in DOMAIN gpio :
        /\ gpio[g].fd = None
        /\ call[g] = Done("close", "None", 0)
        /\ ChipFds(fdtab) = {}
        /\ pollLog /= <<>>

---------------------------------------------------------------------------
(* The claims about GPIO.__init__.                                         *)

\* The number of lines of the board, and the names its lines report.
BoardTotal == Cardinality(BoardLines)

BoardNames == {BoardChips[ln[1]][ln[2] + 1] : ln \in BoardLines}

\* The pin argument resolves to no line: a number outside 0..BoardTotal-1,
\* or a name no line reports.
Unresolvable(arg) ==
    IF arg.name = None THEN arg.num[1] \notin 0..(BoardTotal - 1)
    ELSE arg.name[1] \notin BoardNames

\* C14: __init__ with a pin number outside the range of the lines, or
\* with a name no line reports, raises (the ValueError of an invalid pin
\* number, the RuntimeError of an unknown name, when the mode is valid)
\* with no descriptor opened; after it no controller is open for reading
\* and writing and there is no GPIO object with a descriptor.
C14_NotFoundOpensNothing ==
    /\ [][\A g \in Objs, arg \in CtorPins, mode \in CtorModes,
             initial \in CtorInitials, py2 \in BOOLEAN, force_own \in BOOLEAN :
            (Construct(g, arg, mode, initial, py2, force_own) /\ Unresolvable(arg)) =>
                /\ ctor'.pc = "raised"
                /\ mode \in {GPIO_IN, GPIO_OUT} =>
                    ctor'.out = IF arg.name = None THEN "ValueError" ELSE "RuntimeError"
                /\ fdtab' = <<>>
                /\ gpio' = <<>>
        ]_vars
    /\ []((ctor.pc = "raised" /\ ctor.name = None) =>
            /\ ChipFds(fdtab) = {}
            /\ gpio = <<>>
            /\ \A g \in Objs : ~ENABLED OpenAttempt(g))

\* __init__ for an output with the pin number just above the range has
\* raised ValueError and no descriptor is open.
C14_Witness ==
    /\ ctor.pc = "raised"
    /\ ctor.out = "ValueError"
    /\ ctor.pin = Some(BoardTotal)
    /\ ctor.mode = GPIO_OUT
    /\ fdtab = <<>>

\* __init__ is in or past its loop.
InLoop == ctor.pc = "open"

PastLoop == ctor.pc \in {"set", "returned"} \/ (ctor.pc = "raised" /\ ctor.name /= None)

\* C15: the loop makes at most RetryLimit + 1 tries with a sleep between
\* one try and the next; it raises permission denied only from the
\* (RetryLimit + 1)-th try, after RetryLimit sleeps, and any other error
\* from the try that met it; a try that succeeds leaves the loop with the
\* controller open as self._fd.  Every turn of the loop is followed by
\* another or by the end of the loop, so that the loop ends.
C15_RetryLoopBounded ==
    /\ [](InLoop => (ctor.retries <= RetryLimit /\ ctor.sleeps = ctor.retries))
    /\ [](PastLoop => (ctor.retries <= RetryLimit + 1 /\ ctor.sleeps = ctor.retries - 1))
    /\ []((ctor.pc = "raised" /\ ctor.errno = "EACCES") =>
            (ctor.retries = RetryLimit + 1 /\ ctor.sleeps = RetryLimit /\ gpio = <<>>
             /\ ChipFds(fdtab) = {}))
    /\ [](ctor.pc \in {"set", "returned"} =>
            \A g \in Objs :
                /\ g \in DOMAIN gpio
                /\ gpio[g].fd /= None
                /\ ChipFds(fdtab) = {gpio[g].fd[1]})
    /\ (InLoop ~> PastLoop)

\* Every try met permission denied: __init__ has raised it from the
\* 21st try, after 20 sleeps.
C15_Witness ==
    /\ ctor.pc = "raised"
    /\ ctor.out = "OSError"
    /\ ctor.errno = "EACCES"
    /\ ctor.retries = 21
    /\ ctor.sleeps = 20

\* C17: __init__ for an output with an initial value calls set(initial)
\* once, with the controller open as self._fd, and has driven the line to
\* the initial value when it returns; __init__ for an input, or with
\* initial None, calls no set(), and for an input the lines stay as they
\* were.
C17_ConstructSetsOnce ==
    /\ [](ctor.sets <= 1)
    /\ [](ctor.sets = 1 =>
            /\ ctor.mode = GPIO_OUT /\ ctor.initial /= None
            /\ \A g \in Objs : g \in DOMAIN gpio /\ ChipFds(fdtab) = {gpio[g].fd[1]})
    /\ [](ctor.pc = "returned" =>
            \A g \in Objs :
                IF ctor.mode = GPIO_OUT /\ ctor.initial /= None
                THEN /\ ctor.sets = 1
                     /\ call[g] = DoneSet(ctor.initial)
                     /\ dir[LineOf(g)] = GPIO_OUT
                     /\ level[LineOf(g)] = Bool(ctor.initial[1])
                ELSE /\ ctor.sets = 0
                     /\ call[g] = Done("__init__", "None", 0))
    /\ [][ctor'.mode /= GPIO_OUT => UNCHANGED <<level, dir, edgeLog>>]_vars

\* __init__ for an output with initial value 1 has returned after its one
\* set(): the line, low before, is high.
C17_Witness ==
    /\ ctor.pc = "returned"
    /\ ctor.mode = GPIO_OUT
    /\ ctor.initial = Some(1)
    /\ ctor.sets = 1
    /\ edgeLog /= <<>>
    /\ \A g \in DOMAIN gpio : level[LineOf(g)]

---------------------------------------------------------------------------
(* The claim about the loopback.                                           *)

\* C16: when the last call of the output GPIO is a set(v) that has
\* returned, that of __init__ for the initial value included, a get() of
\* the input GPIO on the pin tied to it that reads the line now returns
\* bool(v).
C16_LoopbackReadsLastSet ==
    [][(/\ GetReturn("in")
        /\ call["out"].op = "set"
        /\ call["out"].pc = "done"
        /\ call["out"].out = "None"
        /\ call'["in"].out /= "OSError")
       => call'["in"].out = BoolStr(Bool(call["out"].arg[1]))
      ]_vars

\* The output GPIO has returned from set(1) after the line had been low,
\* and the get() of the input GPIO has returned True.
C16_Witness ==
    /\ "out" \in DOMAIN call
    /\ call["out"] = DoneSet(Some(1))
    /\ call["in"] = Done("get", "True", 2)
    /\ \E k \in 1..Len(edgeLog) : edgeLog[k].id = _GPIOEVENT_EVENT_RISING_EDGE

---------------------------------------------------------------------------
(* The claims about the notifier's callbacks, failures and stop().         *)

\* C18: the invocations of the callback begin and end by turns, so that
\* no two are in progress together, each ends before the next poll()
\* detects, and they come in the order of the detections that caused
\* them.
C18_CallbacksInOrder ==
    /\ \A k \in 1..Len(cbLog) :
        /\ cbLog[k].ev = IF k % 2 = 1 THEN "begin" ELSE "end"
        /\ (k % 2 = 0) => cbLog[k].seq = cbLog[k - 1].seq
        /\ (k % 2 = 1 /\ k > 1) => cbLog[k].seq > cbLog[k - 2].seq
    /\ (thread = "callback") <=> (Len(cbLog) % 2 = 1)
    /\ Len(cbLog) % 2 = 1 => cbLog[Len(cbLog)].seq = polled.seq

\* The callback was invoked for the first detection and has returned, the
\* second detection, of a falling edge, caused no invocation, and the
\* callback is in progress for the third.
C18_Witness ==
    /\ Len(cbLog) = 3
    /\ cbLog[1].seq = 1
    /\ cbLog[3].seq = 3
    /\ thread = "callback"

\* C19: a poll() that raises in the loop ends the thread: from then on
\* the thread takes no step, so it begins no poll() and invokes no
\* callback.
C19_RaiseEndsLoop ==
    /\ [](polled.result = "raised" => (thread = "dead" /\ ~ENABLED ThreadStep))
    /\ [][thread = "dead" => UNCHANGED <<thread, polled, callbacks, cbLog, afterStop>>]_vars

\* poll() has raised in the loop of a notifier that had invoked its
\* callback before, close() having come in between.
C19_Witness ==
    /\ polled.result = "raised"
    /\ thread = "dead"
    /\ ~sysfs.open
    /\ callbacks >= 1

\* C20: stop() can be called on every notifier async_poll has returned,
\* whatever its thread is doing or has done; it changes the flag and
\* nothing else of the notifier, and after one call or more the flag is
\* false.
C20_StopIdempotent ==
    /\ [](main \in {"started", "stopped"} => (handler.stops = MaxStops \/ ENABLED Stop))
    /\ []((main = "stopped") <=> (handler.stops >= 1))
    /\ [](main = "stopped" => ~handler.running)
    /\ [][Stop =>
            /\ ~handler'.running
            /\ handler'.edge = handler.edge
            /\ UNCHANGED <<thread, sysfs, polled, callbacks, cbLog, afterStop>>
        ]_vars

\* stop() has been called twice on a notifier whose loop a raising poll()
\* had ended.
C20_Witness ==
    /\ main = "stopped"
    /\ handler.stops = 2
    /\ thread = "dead"
    /\ ~handler.running

---------------------------------------------------------------------------
(* The claims about poll() of the character-device GPIO.                   *)

\* poll(edge, timeout) of g is in its wait with timeout 0 and no event is
\* queued on its event descriptor.
PollsEmpty(g) ==
    /\ call[g].op = "poll"
    /\ call[g].pc = "wait"
    /\ call[g].arg[2] = 0
    /\ fdtab[call[g].fd].queue = <<>>

\* C21: poll(edge, 0) with no event queued does not wait for an edge: in
\* the state it is in, with no further edge, it can return, and every way
\* it ends there is the return of None or an exception of the operating
\* system; either way its event descriptor is closed and the line is as it
\* was.
C21_PollZeroReturnsAtOnce ==
    \A g \in DOMAIN gpio : PollsEmpty(g) =>
        /\ ENABLED (PollReturn(g) /\ call'[g] = DonePoll("None", 0))
        /\ ~ ENABLED ( /\ PollReturn(g)
                       /\ ~ ( /\ call'[g] \in {DonePoll("None", 0), DonePoll("OSError", 0)}
                              /\ SecondaryFds(fdtab') = {}
                              /\ level' = level
                              /\ edgeLog' = edgeLog ) )

\* A poll(edge, 0) has returned None on an open GPIO whose line had seen an
\* edge before the call, and no handle or event descriptor is open.
C21_Witness ==
    \E g \in DOMAIN gpio :
        /\ gpio[g].fd /= None
        /\ call[g] = DonePoll("None", 0)
        /\ Len(pollLog) > 0
        /\ pollLog[Len(pollLog)].out = "None"
        /\ pollLog[Len(pollLog)].subAt > 0
        /\ pollLog[Len(pollLog)].retAt = pollLog[Len(pollLog)].subAt
        /\ SecondaryFds(fdtab) = {}

---------------------------------------------------------------------------
(* The claims about force_own and about the errors of the loop.            *)

\* The record of a call of __init__ without the value of force_own.
NoForce(c) == [c EXCEPT !.force_own = FALSE]

C23_ModeReadsBack ==
    /\ [](ctor.pc = "returned" =>
            \A g \in Objs :
                /\ g \in DOMAIN gpio
                /\ gpio[g].pin = ctor.pin[1]
                /\ gpio[g].fd /= None
                /\ gpio[g].fd[1] > 0
                /\ gpio[g].fd[1] \in ChipFds(fdtab))
    /\ [][\A g \in Objs :
            /\ (ctor.pc = "open" /\ ctor'.pc \in {"set", "returned"}) =>
                gpio'[g].mode = ctor.mode
            /\ \A mode \in {GPIO_IN, GPIO_OUT} :
                ModeAssign(g, mode) => (call'[g].out = "None" /\ gpio'[g].mode = mode)
        ]_vars

\* C24: a try of the loop that os.open fails with an error other than
\* permission denied raises that error from this very try: it is try 1,
\* or try k + 1 after k tries that met permission denied and slept, no
\* sleep follows it, nothing is opened, and the loop takes no further
\* turn.
C24_OtherErrorNotRetried ==
    /\ [][\A g \in Objs :
            (OpenAttempt(g) /\ ctor'.errno \notin {"", "EACCES"}) =>
                /\ ctor'.pc = "raised"
                /\ ctor'.out = "OSError"
                /\ ctor'.retries = ctor.retries + 1
                /\ ctor'.sleeps = ctor.sleeps
                /\ ctor.sleeps = ctor.retries
                /\ ctor.retries > 0 => ctor.errno = "EACCES"
                /\ UNCHANGED <<fdtab, gpio, call>>
        ]_vars
    /\ []((ctor.errno \notin {"", "EACCES"}) =>
            /\ ctor.pc = "raised"
            /\ ctor.sleeps = ctor.retries - 1
            /\ \A g \in Objs : ~ENABLED OpenAttempt(g))

\* After two tries that met permission denied, the third met another
\* error and __init__ raised it: three tries, two sleeps.
C24_Witness ==
    /\ ctor.pc = "raised"
    /\ ctor.errno = "ENOENT"
    /\ ctor.retries = 3
    /\ ctor.sleeps = 2
    /\ gpio = <<>>

---------------------------------------------------------------------------
(* The claims about the requests and the descriptors.                      *)

\* The event flags of an edge filter, as numbers.
FlagsOf(edge) == IF edge = RISING THEN 1 ELSE IF edge = FALLING THEN 2 ELSE 3

\* C25: every handle and every event descriptor the kernel has granted
\* belongs to the call in progress of one GPIO object, and its request
\* named one line: the one on the object's controller at the offset that
\* _pin_lookup gives for the object's pin.  The request of get() asked for
\* an input, that of set() for an output, and that of poll() for the
\* events of its edge argument: rising, falling or both.
C25_RequestsNameTheLine ==
    \A n \in SecondaryFds(fdtab) :
        \E g \in DOMAIN gpio :
            /\ InCall(g)
            /\ call[g].fd = n
            /\ fdtab[n].lines = 1
            /\ fdtab[n].dev = gpio[g].name
            /\ fdtab[n].line_offset = gpio[g].line_offset
            /\ <<fdtab[n].dev, fdtab[n].line_offset>> = _pin_lookup(gpio[g].pin).out
            /\ call[g].op \in {"get", "set", "poll"}
            /\ call[g].op = "get" =>
                (fdtab[n].kind = "handle" /\ fdtab[n].flags = _GPIOHANDLE_REQUEST_INPUT)
            /\ call[g].op = "set" =>
                (fdtab[n].kind = "handle" /\ fdtab[n].flags = _GPIOHANDLE_REQUEST_OUTPUT)
            /\ call[g].op = "poll" =>
                /\ fdtab[n].kind = "event"
                /\ call[g].arg[1] \in {RISING, FALLING, BOTH}
                /\ fdtab[n].flags = FlagsOf(call[g].arg[1])

\* A poll() for falling edges holds its event descriptor, on the line at
\* offset 0 of the second controller, which is pin 1.
C25_Witness ==
    \E g \in DOMAIN gpio :
        /\ call[g].op = "poll"
        /\ call[g].pc = "wait"
        /\ call[g].arg[1] = FALLING
        /\ gpio[g].pin = 1
        /\ fdtab[call[g].fd].kind = "event"
        /\ fdtab[call[g].fd].flags = _GPIOEVENT_REQUEST_FALLING_EDGE
        /\ fdtab[call[g].fd].line_offset = 0
        /\ fdtab[call[g].fd].dev = <<2>>

\* C26 as stated: every resolver call has closed, when it returns, each
\* controller descriptor it opened, and it opened at most one for each
\* controller of the system.
C26_ResolverClosesAll ==
    /\ ret.closed = ret.opened
    /\ ret.opened <= Cardinality(DOMAIN chips)

---------------------------------------------------------------------------
(* The claims about the threads of the sysfs GPIO.                         *)

\* C27 as stated: however stop() and the run() of a started thread
\* interleave, stop() before the first statement of run() included, the
\* flag is false in every state after stop() has returned and the thread
\* leaves its loop.
C27_StopAlwaysStops ==
    /\ [](main = "stopped" => ~handler.running)
    /\ (main = "stopped" ~> thread \in {"exit", "dead"})

\* C28 as stated: with the notifier thread running, every get() of the
\* main thread and every get() inside the notifier's poll() reads the
\* whole value: none reads the empty string, whose conversion raises.
C28_GetsReadWholeValue ==
    /\ main /= "raised"
    /\ thread /= "dead"

\* The edge filter asks for the edge with this id.
EdgeAsked(edge, id) ==
    \/ edge = BOTH
    \/ edge = RISING /\ id = 1
    \/ edge = FALLING /\ id = 2

\* The edges a poll() could hear of: those its filter asks for that came
\* after its event request was granted and before it returned, by their
\* place in edgeLog.
Heard(p) == {k \in (p.subAt + 1)..p.retAt : EdgeAsked(p.edge, edgeLog[k].id)}

\* C29: a poll() that returns an edge returns the first edge its filter
\* asks for that came between its own event request and its return,
\* 'rising' exactly when the id of that edge is 1 and 'falling' exactly
\* when it is 2; a poll() returns None only when there was no such edge.
\* So no poll() returns an edge from before its request: not one that came
\* while no poll() was in progress, and not one an earlier poll() left
\* queued when it closed its descriptor.
C29_PollReturnsOwnEdge ==
    \A i \in 1..Len(pollLog) :
        LET p == pollLog[i]
        IN  /\ p.out \in {RISING, FALLING, "None", "OSError"}
            /\ p.subAt <= p.retAt
            /\ i > 1 => pollLog[i - 1].retAt <= p.subAt
            /\ p.out = "None" => Heard(p) = {}
            /\ p.out \in {RISING, FALLING} =>
                /\ Heard(p) /= {}
                /\ LET k == CHOOSE j \in Heard(p) : \A m \in Heard(p) : j <= m
                   IN  /\ p.out = RISING <=> edgeLog[k].id = 1
                       /\ p.out = FALLING <=> edgeLog[k].id = 2

\* A poll() on both edges returned rising when a rising and then a
\* falling edge had come after its request, and the next poll() on both
\* edges, with no new edge, returned None: the falling edge is returned
\* by no poll().
C29_Witness ==
    /\ Len(pollLog) = 2
    /\ Len(edgeLog) = 2
    /\ pollLog[1].edge = BOTH
    /\ pollLog[1].out = RISING
    /\ pollLog[1].subAt = 0
    /\ pollLog[1].retAt = 2
    /\ edgeLog[2].id = 2
    /\ pollLog[2].edge = BOTH
    /\ pollLog[2].out = "None"
    /\ pollLog[2].subAt = 2

---------------------------------------------------------------------------
(* The claim about the request codes.                                      *)

\* The number whose 1 bits are at the positions S.
RECURSIVE SumPow(_)
SumPow(S) ==
    IF S = {} THEN 0
    ELSE LET i == CHOOSE j \in S : TRUE
         IN  2 ^ i + SumPow(S \ {i})

\* The field of width bits that starts at position shift of a request
\* code.
Field(code, shift, bits) ==
    SumPow({i - shift : i \in {j \in code : j >= shift /\ j < shift + bits}})

\* The number and the size the claim gives for each request.
StatedNr(r) ==
    CASE r = "_GPIO_GET_CHIPINFO_IOCTL" -> 1
      [] r = "_GPIO_GET_LINEINFO_IOCTL" -> 2
      [] r = "_GPIO_GET_LINEHANDLE_IOCTL" -> 3
      [] r = "_GPIO_GET_LINEEVENT_IOCTL" -> 4
      [] r = "_GPIOHANDLE_GET_LINE_VALUES_IOCTL" -> 8
      [] r = "_GPIOHANDLE_SET_LINE_VALUES_IOCTL" -> 9

StatedSize(r) ==
    CASE r = "_GPIO_GET_CHIPINFO_IOCTL" -> 68
      [] r = "_GPIO_GET_LINEINFO_IOCTL" -> 72
      [] r = "_GPIO_GET_LINEHANDLE_IOCTL" -> 364
      [] r = "_GPIO_GET_LINEEVENT_IOCTL" -> 48
      [] r = "_GPIOHANDLE_GET_LINE_VALUES_IOCTL" -> 64
      [] r = "_GPIOHANDLE_SET_LINE_VALUES_IOCTL" -> 64

\* C30: for direction < 4, size < 2^14, type < 2^8 and nr < 2^8 the code
\* IOC gives is direction*2^30 + size*2^16 + type*2^8 + nr: its upper 16
\* bits are direction*2^14 + size and its lower 16 bits type*2^8 + nr,
\* and each argument is read back from its own bit range, so that two
\* codes are equal only when the four arguments are.  Each of the six
\* GPIO request codes has type 0xB4, the stated number and the stated
\* size, which is below 2^14 and is the size of what is exchanged.
C30_RequestCodes ==
    /\ ret.op = "IOC" =>
        LET direction == ret.arg[1][1]
            itype == ret.arg[1][2]
            nr == ret.arg[1][3]
            size == ret.arg[1][4]
            code == ret.out[1]
        IN  /\ code \subseteq 0..31
            /\ Field(code, 16, 16) = direction * 2 ^ 14 + size
            /\ Field(code, 0, 16) = itype * 2 ^ 8 + nr
            /\ Field(code, 30, 2) = direction
            /\ Field(code, 16, 14) = size
            /\ Field(code, 8, 8) = itype
            /\ Field(code, 0, 8) = nr
    /\ ret.op = "request" =>
        LET r == ret.arg[1]
            code == ret.out[1]
        IN  /\ code \subseteq 0..31
            /\ Field(code, 8, 8) = 180
            /\ Field(code, 0, 8) = StatedNr(r)
            /\ Field(code, 16, 14) = StatedSize(r)
            /\ StatedSize(r) < 2 ^ 14
            /\ StatedSize(r) = sizeof(Exchanged(r))
            /\ Field(code, 30, 2) \in {IOC_READ, IOC_READ + IOC_WRITE}

\* The code of the line-handle request has been computed: 0xC16CB403,
\* with 0xC16C = 49516 and 0xB403 = 46083.
C30_Witness ==
    /\ ret.op = "request"
    /\ ret.arg = Some("_GPIO_GET_LINEHANDLE_IOCTL")
    /\ Field(ret.out[1], 16, 16) = 49516
    /\ Field(ret.out[1], 0, 16) = 46083

====
